---- MODULE Spec2Model ----
(***************************************************************************)
(* Self-Healing Protocol scheduler: the scheduling session of main.c       *)
(* (one-shot and incremental MILP scheduling followed by check_schedule),  *)
(* the verifier check_schedule as a function of an offset table, the       *)
(* patch session of patch.c (greedy allocation on the sorted list of link  *)
(* transmissions) and the optimize session of optimize.c (MILP on the      *)
(* patched link).  All times are integers in timeslots, as they are after  *)
(* prepare_network has normalised them; the setters of Frame.c,            *)
(* read_traffic_xml and prepare_network itself are followed on times that  *)
(* are not yet in timeslots.                                               *)
(***************************************************************************)
EXTENDS Integers, Naturals, Sequences, FiniteSets, TLC

VARIABLES
    pc,                 \* position of the entry point (main / patch main)
    traffic,            \* Traffic.frames: sequence of frame records
    healing_prot,       \* SelfHealing_Protocol: [period, time]
    switch_min_time,    \* switch_info.min_time
    algorithm,          \* Scheduler algorithm: "one_shot" | "incremental"
    frames_it,          \* frames solved at each iteration (FramesIteration)
    offsets,            \* Offset.offset cells: <<frame, link, instance>> -> time, -1 unset
    shp_offsets,        \* reservation Offset.offset cells: <<link, instance>> -> time
    model,              \* the Gurobi model: [vars : var -> <<lb, ub>>, cons : set of constraints]
    solver,             \* "none" | "open" | "closed"  (env/model of init_solver)
    incumbent,          \* the solution of the last GRBoptimize, << >> when solcount = 0
    frames_scheduled,   \* incremental_approach: frames already scheduled;
                        \* allocate_patch_traffic: frames already allocated
    it,                 \* incremental_approach: iteration counter;
                        \* allocate_patch_traffic: instance of the frame to allocate
    ret,                \* return value of schedule_network / patch, "none" before it returns
    no_incumbent,       \* a solve ended with solcount = 0 although its model was feasible
    written,            \* documents written by the entry point so far
    hyperperiod,        \* HyperPeriod of all the frames in the network
    num_frames_fixed,   \* number of fixed frames of a patch (Network.c)
    sorted_trans,       \* the sorted list of link transmissions (patch), NULL = << >>
    failed,             \* the calls of the entry point that have returned -1
    exit_code,          \* what main returned, "none" while it runs
    solcount,           \* GRB_INT_ATTR_SOLCOUNT after the last GRBoptimize
    verified,           \* check_schedule has returned 0 on the offsets
    timeslot            \* size_timeslot: size of the timeslot in nanoseconds (Network.c)

vars == << pc, traffic, healing_prot, switch_min_time, algorithm, frames_it, offsets,
           shp_offsets, model, solver, incumbent, frames_scheduled, it, ret, no_incumbent, written,
           hyperperiod, num_frames_fixed, sorted_trans, failed, exit_code, solcount,
           verified, timeslot >>

----------------------------------------------------------------------------
(* Bounds of the inputs *)

MaxTime == 2
MaxCells == 3

FrameCounts == {1, 2}
LinkIds == {0, 1}
Periods == {3, 6}
StartingTimes == {0, 1}
EndToEnds == {0, 2, 3}
PathLists == { << <<0>> >>, << <<0, 1>> >> }
SwitchTimes == {0, 1}
FramesIterations == {1, 2}
MaxIterations == 4

RECURSIVE gcd(_, _)
gcd(a, b) ==
    IF a = 0 \/ b = 0 THEN 0
    ELSE IF a = b THEN a
    ELSE IF a > b THEN gcd(a - b, b) ELSE gcd(a, b - a)

RECURSIVE Hyperperiod(_, _)
Hyperperiod(frames, n) ==
    IF n = 0 THEN 0
    ELSE LET h == Hyperperiod(frames, n - 1)
             p == frames[n].period
         IN IF h = 0 THEN p ELSE (h * p) \div gcd(h, p)

----------------------------------------------------------------------------
(* Frame.c / Network.c getters *)

higher_link_id == CHOOSE l \in LinkIds : \A m \in LinkIds : m <= l

RECURSIVE PathsLinks(_, _)
PathsLinks(paths, n) ==
    IF n = 0 THEN {}
    ELSE PathsLinks(paths, n - 1) \cup {paths[n][h] : h \in 1..Len(paths[n])}

\* the links l for which offset_hash[l] of the frame is not NULL (init_offsets)
FrameLinks(fr) == PathsLinks(fr.paths, Len(fr.paths))

get_off_num_instances(fr) == hyperperiod \div fr.period

\* the fake frame of prepare_healing_protocol, one offset per link id
reservation ==
    [period |-> healing_prot.period, deadline |-> healing_prot.period, starting |-> 0,
     end_to_end |-> 0, time |-> healing_prot.time, paths |-> << >>]

OffsetKeys(frames) ==
    {k \in (1..Len(frames)) \X LinkIds \X (0..hyperperiod) :
        /\ k[2] \in FrameLinks(frames[k[1]])
        /\ k[3] < get_off_num_instances(frames[k[1]])}

ReservationKeys ==
    IF healing_prot.period = 0 THEN {}
    ELSE {k \in LinkIds \X (0..hyperperiod) : k[2] < get_off_num_instances(reservation)}

----------------------------------------------------------------------------
(* The variables and constraints given to the solver *)

VarOff(f, l, i) == <<"Off", f, l, i>>
VarSHP(l, i) == <<"SHP", 0, l, i>>
VarFrameDis(f) == <<"FrameDis", f, 0, 0>>
VarLinkDis(iter, l) == <<"LinkDis", iter, l, 0>>
NoVar == <<"None", 0, 0, 0>>

Con(k, a, b, s, rhs, rhs2) == [k |-> k, a |-> a, b |-> b, s |-> s, rhs |-> rhs, rhs2 |-> rhs2]

EmptyModel == [vars |-> << >>, cons |-> {}]

\* frames[accum_num] .. frames[accum_num + num - 1] of the C loops, 1-based
Batch(num, accum_num) == (accum_num + 1)..(accum_num + num)

create_offsets_variables(frames, num, accum_num, do_protocol) ==
    LET offs == {<<f, l, i>> \in OffsetKeys(frames) : f \in Batch(num, accum_num)}
        shp  == IF healing_prot.period # 0 /\ do_protocol = 1 THEN ReservationKeys ELSE {}
    IN  [v \in {VarOff(k[1], k[2], k[3]) : k \in offs} \cup {VarSHP(k[1], k[2]) : k \in shp} |->
            IF v[1] = "Off"
            THEN LET fr == frames[v[2]]
                 IN  << fr.starting + (v[4] * fr.period),
                        fr.deadline - fr.time + (fr.period * v[4]) >>
            ELSE << v[4] * reservation.period, v[4] * reservation.period >>]

\* the distances created with the lower bound 1
create_intermission_variables_positive(frames, num, accum_num, iter) ==
    [v \in {VarFrameDis(f) : f \in Batch(num, accum_num)} \cup
           {VarLinkDis(iter, l) : l \in 0..higher_link_id} |->
        IF v[1] = "FrameDis" THEN << 1, frames[v[2]].end_to_end >> ELSE << 1, hyperperiod >>]

create_intermission_variables(frames, num, accum_num, iter) ==
    [v \in {VarFrameDis(f) : f \in Batch(num, accum_num)} \cup
           {VarLinkDis(iter, l) : l \in 0..higher_link_id} |->
        IF v[1] = "FrameDis" THEN << 0, frames[v[2]].end_to_end >> ELSE << 0, hyperperiod >>]

Instances(fr) == 0..(get_off_num_instances(fr) - 1)

\* path_dependent with the transmission time alone as the distance
path_dependent_no_switch(frames, num, accum_num) ==
    UNION {UNION {
        {Con("PathDep", VarOff(f, frames[f].paths[j][h], inst),
                        VarOff(f, frames[f].paths[j][h + 1], inst), VarFrameDis(f),
                        frames[f].time, 0) :
            h \in 1..(Len(frames[f].paths[j]) - 1), inst \in Instances(frames[f])} :
        j \in 1..Len(frames[f].paths)} :
        f \in Batch(num, accum_num)}

path_dependent(frames, num, accum_num) ==
    UNION {UNION {
        {Con("PathDep", VarOff(f, frames[f].paths[j][h], inst),
                        VarOff(f, frames[f].paths[j][h + 1], inst), VarFrameDis(f),
                        frames[f].time + switch_min_time, 0) :
            h \in 1..(Len(frames[f].paths[j]) - 1), inst \in Instances(frames[f])} :
        j \in 1..Len(frames[f].paths)} :
        f \in Batch(num, accum_num)}

\* end_to_end_delay with the transmission time left out of the bound
end_to_end_delay_no_duration(frames, num, accum_num) ==
    UNION {UNION {UNION {
        LET first == VarOff(f, frames[f].paths[j][1], inst)
            last  == VarOff(f, frames[f].paths[j][Len(frames[f].paths[j])], inst)
        IN  { Con("End1", first, last, NoVar, frames[f].end_to_end, 0),
              Con("End2", first, NoVar, VarFrameDis(f),
                  frames[f].starting + (frames[f].period * inst), 0),
              Con("End3", last, NoVar, VarFrameDis(f),
                  frames[f].deadline + (frames[f].period * inst) - frames[f].time, 0) } :
        inst \in Instances(frames[f])} :
        j \in 1..Len(frames[f].paths)} :
        f \in Batch(num, accum_num)}

end_to_end_delay(frames, num, accum_num) ==
    UNION {UNION {UNION {
        LET first == VarOff(f, frames[f].paths[j][1], inst)
            last  == VarOff(f, frames[f].paths[j][Len(frames[f].paths[j])], inst)
        IN  { Con("End1", first, last, NoVar, frames[f].end_to_end - frames[f].time, 0),
              Con("End2", first, NoVar, VarFrameDis(f),
                  frames[f].starting + (frames[f].period * inst), 0),
              Con("End3", last, NoVar, VarFrameDis(f),
                  frames[f].deadline + (frames[f].period * inst) - frames[f].time, 0) } :
        inst \in Instances(frames[f])} :
        j \in 1..Len(frames[f].paths)} :
        f \in Batch(num, accum_num)}

\* the window test with its second alternative forgotten
ShareIntervalOneSided(fr, inst, pre, pre_inst) ==
    LET min1 == (fr.period * inst) + (fr.starting + 1)
        max1 == (fr.period * inst) + (fr.deadline + 1)
        min2 == (pre.period * pre_inst) + (pre.starting + 1)
    IN  min1 <= min2 /\ min2 < max1

\* the window test taking the end of a window as part of it
ShareIntervalClosed(fr, inst, pre, pre_inst) ==
    LET min1 == (fr.period * inst) + (fr.starting + 1)
        max1 == (fr.period * inst) + (fr.deadline + 1)
        min2 == (pre.period * pre_inst) + (pre.starting + 1)
        max2 == (pre.period * pre_inst) + (pre.deadline + 1)
    IN  (min1 <= min2 /\ min2 <= max1) \/ (min2 <= min1 /\ min1 <= max2)

\* the test of contention_free on the windows of two instances
ShareInterval(fr, inst, pre, pre_inst) ==
    LET min1 == (fr.period * inst) + (fr.starting + 1)
        max1 == (fr.period * inst) + (fr.deadline + 1)
        min2 == (pre.period * pre_inst) + (pre.starting + 1)
        max2 == (pre.period * pre_inst) + (pre.deadline + 1)
    IN  (min1 <= min2 /\ min2 < max1) \/ (min2 <= min1 /\ min1 < max2)

\* pre = 0 stands for the bandwidth reservation frame, pre >= 1 for frames[pre]
PreFrame(frames, pre) == IF pre = 0 THEN reservation ELSE frames[pre]
PreLinks(frames, pre) == IF pre = 0 THEN LinkIds ELSE FrameLinks(frames[pre])
PreVar(pre, l, i) == IF pre = 0 THEN VarSHP(l, i) ELSE VarOff(pre, l, i)

contention_free(frames, num, accum_num, iter) ==
    UNION {UNION {UNION {
        {Con("Avoid", VarOff(f, l, inst), PreVar(pre, l, pre_inst), VarLinkDis(iter, l),
             frames[f].time, PreFrame(frames, pre).time) :
            <<inst, pre_inst>> \in
                {q \in Instances(frames[f]) \X Instances(PreFrame(frames, pre)) :
                    ShareInterval(frames[f], q[1], PreFrame(frames, pre), q[2])}} :
        pre \in {x \in (IF healing_prot.period = 0 THEN 1 ELSE 0)..(f - 1) :
                    l \in PreLinks(frames, x)}} :
        l \in FrameLinks(frames[f])} :
        f \in Batch(num, accum_num)}

----------------------------------------------------------------------------
(* The solver: GRBoptimize leaves any assignment that satisfies the model *)

\* p assigns the offset variables, s the FrameDis / LinkDis variables
Sat(c, p, s) ==
    CASE c.k = "PathDep" -> p[c.b] - p[c.a] - s[c.s] >= c.rhs
      [] c.k = "End1"    -> p[c.b] - p[c.a] <= c.rhs
      [] c.k = "End2"    -> p[c.a] - s[c.s] >= c.rhs
      [] c.k = "End3"    -> p[c.a] + s[c.s] <= c.rhs
      [] c.k = "Avoid"   -> \/ p[c.b] - p[c.a] - s[c.s] >= c.rhs
                            \/ p[c.a] - p[c.b] - s[c.s] >= c.rhs2
      [] c.k = "Fix"     -> p[c.a] = c.rhs
      [] c.k = "RangeMin" -> p[c.a] - s[c.s] >= c.rhs
      [] c.k = "RangeMax" -> p[c.a] + s[c.s] <= c.rhs

OffsetVars(m) == {v \in DOMAIN m.vars : v[1] \in {"Off", "SHP"}}
SlackVars(m) == (DOMAIN m.vars) \ OffsetVars(m)
ConVars(c) == {c.a, c.b} \ {NoVar}
SlackLower(m) == [v \in SlackVars(m) |-> m.vars[v][1]]

\* The assignments of the offset variables within their bounds, built one variable
\* at a time; a partial assignment is dropped as soon as a constraint on assigned
\* variables fails with every slack at its lower bound (a slack only tightens).
RECURSIVE Extend(_, _, _)
Extend(m, todo, partials) ==
    IF todo = {} \/ partials = {} THEN partials
    ELSE LET v   == CHOOSE x \in todo : TRUE
             ext == {p @@ (v :> x) : p \in partials, x \in (m.vars[v][1])..(m.vars[v][2])}
             ok  == {p \in ext : \A c \in m.cons :
                        (v \in ConVars(c) /\ ConVars(c) \subseteq DOMAIN p)
                            => Sat(c, p, SlackLower(m))}
         IN  Extend(m, todo \ {v}, ok)

SlackInBounds(m, s) == \A v \in SlackVars(m) : m.vars[v][1] <= s[v] /\ s[v] <= m.vars[v][2]

Incumbents(m) ==
    {p \in Extend(m, OffsetVars(m), {<< >>}) :
        \E s \in [SlackVars(m) -> 0..hyperperiod] :
            SlackInBounds(m, s) /\ \A c \in m.cons : Sat(c, p, s)}

----------------------------------------------------------------------------
(* save_offsets and check_schedule *)

BatchKeys(frames, num, accum_num) ==
    {k \in OffsetKeys(frames) : k[1] \in Batch(num, accum_num)}

\* save_offsets reading the variable of instance 0 for every instance
save_offsets_first_instance(frames, num, accum_num, x) ==
    [k \in DOMAIN offsets |->
        IF k[1] \in Batch(num, accum_num) THEN x[VarOff(k[1], k[2], 0)] ELSE offsets[k]]

save_offsets_cells(frames, num, accum_num, x) ==
    [k \in DOMAIN offsets |->
        IF k[1] \in Batch(num, accum_num) THEN x[VarOff(k[1], k[2], k[3])] ELSE offsets[k]]

\* save_offsets without its "Fix" constraints
save_offsets_unpinned(frames, num, accum_num, x) == {}

save_offsets_fix(frames, num, accum_num, x) ==
    {Con("Fix", VarOff(k[1], k[2], k[3]), NoVar, NoVar, x[VarOff(k[1], k[2], k[3])], 0) :
        k \in BatchKeys(frames, num, accum_num)}

\* "The transmission time ... is smaller / larger than should be"
LimitsViolated(frames, off, i, l, inst) ==
    LET trans_time == off[<<i, l, inst>>]
        lb == (frames[i].period * inst) + frames[i].starting
        ub == (frames[i].period * inst) + frames[i].deadline - frames[i].time
    IN  trans_time < lb \/ trans_time > ub

\* "The frame collides with the protocol"
ProtocolCollides(frames, off, shp, i, l, inst) ==
    /\ healing_prot.period # 0
    /\ \E prot_inst \in Instances(reservation) :
          LET trans_time == off[<<i, l, inst>>]
              end_time == frames[i].time + frames[i].time
              prot_trans_time == shp[<<l, prot_inst>>]
              end_time2 == prot_trans_time + reservation.time
          IN  (prot_trans_time < end_time) /\ (trans_time < end_time2)

\* "The frames collide in link"
FramesCollide(frames, off, i, l, inst) ==
    \E pre_fr_it \in 1..(i - 1) :
        /\ l \in FrameLinks(frames[pre_fr_it])
        /\ \E pre_inst \in Instances(frames[pre_fr_it]) :
              LET trans_time == off[<<i, l, inst>>]
                  pre_trans_time == off[<<pre_fr_it, l, pre_inst>>]
                  end_time == trans_time + frames[i].time - 1
                  end_time2 == pre_trans_time + frames[pre_fr_it].time - 1
              IN  (pre_trans_time < end_time) /\ (trans_time < end_time2)

\* "The distances of the path of frame is wrong"
PathViolated(frames, off, i, j, inst) ==
    \E h \in 1..(Len(frames[i].paths[j]) - 1) :
        LET distance == frames[i].time + switch_min_time
            trans_time == off[<<i, frames[i].paths[j][h], inst>>]
            next_trans_time == off[<<i, frames[i].paths[j][h + 1], inst>>]
        IN  (next_trans_time - trans_time) < distance

\* "The end to end delay of frame is wrong"
EndToEndViolated(frames, off, i, j, inst) ==
    LET distance == frames[i].end_to_end - frames[i].time + 1
        trans_time == off[<<i, frames[i].paths[j][1], inst>>]
        last_trans_time == off[<<i, frames[i].paths[j][Len(frames[i].paths[j])], inst>>]
    IN  (last_trans_time - trans_time) > distance

check_schedule(frames, off, shp) ==
    IF \E i \in 1..Len(frames) : \E inst \in Instances(frames[i]) :
          \/ \E l \in FrameLinks(frames[i]) :
                \/ LimitsViolated(frames, off, i, l, inst)
                \/ ProtocolCollides(frames, off, shp, i, l, inst)
                \/ FramesCollide(frames, off, i, l, inst)
          \/ \E j \in 1..Len(frames[i].paths) :
                \/ PathViolated(frames, off, i, j, inst)
                \/ EndToEndViolated(frames, off, i, j, inst)
    THEN -1 ELSE 0

----------------------------------------------------------------------------
(* The documents the entry points read.  Every link has the same speed: a     *)
(* frame has one transmission time, the same on each link of its paths.      *)

FrameInputs ==
    {fr \in [period : Periods, deadline : Periods, starting : StartingTimes,
             end_to_end : EndToEnds, time : 1..MaxTime, paths : PathLists] :
        /\ fr.deadline = fr.period
        /\ fr.starting < fr.deadline
        /\ fr.end_to_end < fr.deadline}

TrafficInputs == UNION {[1..n -> FrameInputs] : n \in FrameCounts}

Inactive == [period |-> 0, time |-> 0]
ProtocolInputs == {Inactive, [period |-> 3, time |-> 1], [period |-> 3, time |-> 4]}

\* size_timeslot of prepare_network: the gcd of the reservation time and of the
\* transmission time of every offset
RECURSIVE size_timeslot(_, _, _)
size_timeslot(frames, n, hp) ==
    IF n = 0 THEN (IF hp.period # 0 THEN hp.time ELSE 0)
    ELSE LET ts == size_timeslot(frames, n - 1, hp)
         IN  IF ts = 0 THEN frames[n].time ELSE gcd(ts, frames[n].time)

----------------------------------------------------------------------------
(* main.c: read_network_xml; prepare_network; read_schedule_parameters_xml;  *)
(* schedule_network; write_schedule_xml                                      *)

Init ==
    /\ pc = "read_network_xml"
    /\ traffic = << >>
    /\ healing_prot = Inactive
    /\ switch_min_time = 0
    /\ algorithm = "one_shot"
    /\ frames_it = 1
    /\ offsets = << >>
    /\ shp_offsets = << >>
    /\ model = EmptyModel
    /\ solver = "none"
    /\ incumbent = << >>
    /\ frames_scheduled = 0
    /\ it = 1
    /\ ret = "none"
    /\ no_incumbent = FALSE
    /\ written = {}
    /\ hyperperiod = 0
    /\ num_frames_fixed = 0
    /\ sorted_trans = << >>
    /\ failed = {}
    /\ exit_code = "none"
    /\ solcount = 0
    /\ verified = FALSE
    /\ timeslot = 0

\* The documents are given in timeslots: the timeslot prepare_network computes is 1.
\* When xmlReadFile cannot open the document, read_network_xml returns -1 with
\* nothing read; main goes on to prepare_network.
ReadNetworkXml ==
    /\ pc = "read_network_xml"
    /\ \/ /\ \E frames \in TrafficInputs, hp \in ProtocolInputs, sw \in SwitchTimes :
                /\ size_timeslot(frames, Len(frames), hp) = 1
                /\ traffic' = frames
                /\ healing_prot' = hp
                /\ switch_min_time' = sw
                /\ hyperperiod' = Hyperperiod(frames, Len(frames))
          /\ UNCHANGED failed
       \/ /\ failed' = failed \cup {"read_network_xml"}
          /\ UNCHANGED << traffic, healing_prot, switch_min_time, hyperperiod >>
    /\ pc' = "prepare_network"
    /\ UNCHANGED << algorithm, frames_it, offsets, shp_offsets, model, solver,
                    incumbent, frames_scheduled, it, ret, no_incumbent, written,
                    num_frames_fixed, sorted_trans, exit_code, solcount, verified,
                    timeslot >>

\* init_offset_reservation and init_offsets leave every cell at -1; with no
\* offset and no reservation the timeslot is 0 and prepare_network returns -1;
\* main goes on to read_schedule_parameters_xml
PrepareNetwork ==
    /\ pc = "prepare_network"
    /\ shp_offsets' = [k \in ReservationKeys |-> -1]
    /\ offsets' = [k \in OffsetKeys(traffic) |-> -1]
    /\ failed' = IF size_timeslot(traffic, Len(traffic), healing_prot) = 0
                 THEN failed \cup {"prepare_network"} ELSE failed
    /\ pc' = "read_schedule_parameters_xml"
    /\ UNCHANGED << traffic, healing_prot, switch_min_time, algorithm, frames_it, model,
                    solver, incumbent, frames_scheduled, it, ret, no_incumbent, written,
                    hyperperiod, num_frames_fixed, sorted_trans, exit_code, solcount,
                    verified, timeslot >>

ReadScheduleParametersXml ==
    /\ pc = "read_schedule_parameters_xml"
    /\ \/ algorithm' = "one_shot" /\ UNCHANGED frames_it
       \/ algorithm' = "incremental" /\ frames_it' \in FramesIterations
    /\ pc' = "schedule_network"
    /\ UNCHANGED << traffic, healing_prot, switch_min_time, offsets, shp_offsets, model,
                    solver, incumbent, frames_scheduled, it, ret, no_incumbent, written,
                    hyperperiod, num_frames_fixed, sorted_trans, failed, exit_code,
                    solcount, verified, timeslot >>

\* the variables and constraints one_shot_scheduling / an iteration of
\* incremental_approach add to the model for a batch of frames
EmitBatch(m, frames, num, accum_num, do_protocol, iter) ==
    [vars |-> m.vars @@ create_offsets_variables(frames, num, accum_num, do_protocol)
                     @@ create_intermission_variables(frames, num, accum_num, iter),
     cons |-> m.cons \cup path_dependent(frames, num, accum_num)
                     \cup end_to_end_delay(frames, num, accum_num)
                     \cup contention_free(frames, num, accum_num, iter)]

\* set_trans_time of create_offsets_variables on the reservation
ReservationTimes ==
    [k \in DOMAIN shp_offsets |-> k[2] * reservation.period]

\* GRBoptimize: an incumbent if the solver finds one within the time limit
Optimize(m) ==
    LET found == Incumbents(m)
    IN  \/ /\ incumbent' \in found
           /\ solcount' = 1
           /\ UNCHANGED no_incumbent
        \/ /\ incumbent' = << >>
           /\ solcount' = 0
           /\ no_incumbent' = (no_incumbent \/ found # {})

\* one_shot_scheduling up to GRBoptimize
OneShotOptimize ==
    /\ pc = "schedule_network"
    /\ algorithm = "one_shot"
    /\ solver' = "open"
    /\ model' = EmitBatch(EmptyModel, traffic, Len(traffic), 0, 1, 0)
    /\ shp_offsets' = ReservationTimes
    /\ Optimize(model')
    /\ pc' = "one_shot_solved"
    /\ UNCHANGED << traffic, healing_prot, switch_min_time, algorithm, frames_it,
                    offsets, frames_scheduled, it, ret, written, hyperperiod,
                    num_frames_fixed, sorted_trans, failed, exit_code, verified,
                    timeslot >>

\* OneShotFinish writing the offsets before it looks at the solution count
OneShotFinishWritesFirst ==
    /\ pc = "one_shot_solved"
    /\ IF solcount = 0
       THEN /\ ret' = -1
            /\ offsets' = [k \in DOMAIN offsets |-> 0]
            /\ UNCHANGED << model, solver, verified >>
       ELSE /\ offsets' = save_offsets_cells(traffic, Len(traffic), 0, incumbent)
            /\ model' = [model EXCEPT !.cons =
                            @ \cup save_offsets_fix(traffic, Len(traffic), 0, incumbent)]
            /\ verified' = (check_schedule(traffic, offsets', shp_offsets) = 0)
            /\ IF check_schedule(traffic, offsets', shp_offsets) # 0
               THEN ret' = -1 /\ UNCHANGED solver
               ELSE ret' = 0 /\ solver' = "closed"
    /\ pc' = "write_schedule_xml"
    /\ UNCHANGED << traffic, healing_prot, switch_min_time, algorithm, frames_it,
                    shp_offsets, incumbent, frames_scheduled, it, no_incumbent, written,
                    hyperperiod, num_frames_fixed, sorted_trans, failed, exit_code,
                    solcount, timeslot >>

\* one_shot_scheduling after GRBoptimize, and the return of schedule_network
OneShotFinish ==
    /\ pc = "one_shot_solved"
    /\ IF solcount = 0
       THEN /\ ret' = -1
            /\ UNCHANGED << offsets, model, solver, verified >>
       ELSE /\ offsets' = save_offsets_cells(traffic, Len(traffic), 0, incumbent)
            /\ model' = [model EXCEPT !.cons =
                            @ \cup save_offsets_fix(traffic, Len(traffic), 0, incumbent)]
            /\ verified' = (check_schedule(traffic, offsets', shp_offsets) = 0)
            /\ IF check_schedule(traffic, offsets', shp_offsets) # 0
               THEN ret' = -1 /\ UNCHANGED solver
               ELSE ret' = 0 /\ solver' = "closed"
    /\ pc' = "write_schedule_xml"
    /\ UNCHANGED << traffic, healing_prot, switch_min_time, algorithm, frames_it,
                    shp_offsets, incumbent, frames_scheduled, it, no_incumbent, written,
                    hyperperiod, num_frames_fixed, sorted_trans, failed, exit_code,
                    solcount, timeslot >>

\* incremental_approach: init_solver
IncrementalStart ==
    /\ pc = "schedule_network"
    /\ algorithm = "incremental"
    /\ solver' = "open"
    /\ frames_scheduled' = 0
    /\ it' = 1
    /\ pc' = "incremental_loop"
    /\ UNCHANGED << traffic, healing_prot, switch_min_time, algorithm, frames_it,
                    offsets, shp_offsets, model, incumbent, ret, no_incumbent, written,
                    hyperperiod, num_frames_fixed, sorted_trans, failed, exit_code,
                    solcount, verified, timeslot >>

\* one iteration of the while loop up to GRBoptimize
IncrementalOptimize ==
    /\ pc = "incremental_loop"
    /\ frames_scheduled < Len(traffic)
    /\ frames_it' = IF frames_scheduled + frames_it > Len(traffic)
                    THEN Len(traffic) - frames_scheduled ELSE frames_it
    /\ model' = EmitBatch(model, traffic, frames_it', frames_scheduled,
                          IF frames_scheduled = 0 THEN 1 ELSE 0, it)
    /\ shp_offsets' = IF frames_scheduled = 0 THEN ReservationTimes ELSE shp_offsets
    /\ Optimize(model')
    /\ pc' = "incremental_solved"
    /\ UNCHANGED << traffic, healing_prot, switch_min_time, algorithm, offsets, solver,
                    frames_scheduled, it, ret, written, hyperperiod, num_frames_fixed,
                    sorted_trans, failed, exit_code, verified, timeslot >>

\* it += 1 and frames_scheduled += frames_it: the counters of a loop that does
\* not end are followed up to MaxIterations and told apart no further
NextIteration(n) == IF n < MaxIterations THEN n + 1 ELSE n
NextScheduled(n) == IF n < -MaxIterations THEN -MaxIterations ELSE n

\* IncrementalSave counting one frame for every batch
IncrementalSaveOneFrame ==
    /\ pc = "incremental_solved"
    /\ IF solcount = 0
       THEN /\ pc' = "write_schedule_xml"
            /\ ret' = -1
            /\ UNCHANGED << offsets, model, it, frames_scheduled >>
       ELSE /\ offsets' = save_offsets_cells(traffic, frames_it, frames_scheduled, incumbent)
            /\ model' = [model EXCEPT !.cons =
                            @ \cup save_offsets_fix(traffic, frames_it, frames_scheduled,
                                                    incumbent)]
            /\ it' = NextIteration(it)
            /\ frames_scheduled' = NextScheduled(frames_scheduled + 1)
            /\ pc' = "incremental_loop"
            /\ UNCHANGED ret
    /\ UNCHANGED << traffic, healing_prot, switch_min_time, algorithm, frames_it,
                    shp_offsets, solver, incumbent, no_incumbent, written, hyperperiod,
                    num_frames_fixed, sorted_trans, failed, exit_code, solcount,
                    verified, timeslot >>

\* the rest of the iteration: no schedule found, or save_offsets and the next batch
IncrementalSave ==
    /\ pc = "incremental_solved"
    /\ IF solcount = 0
       THEN /\ pc' = "write_schedule_xml"
            /\ ret' = -1
            /\ UNCHANGED << offsets, model, it, frames_scheduled >>
       ELSE /\ offsets' = save_offsets_cells(traffic, frames_it, frames_scheduled, incumbent)
            /\ model' = [model EXCEPT !.cons =
                            @ \cup save_offsets_fix(traffic, frames_it, frames_scheduled,
                                                    incumbent)]
            /\ it' = NextIteration(it)
            /\ frames_scheduled' = NextScheduled(frames_scheduled + frames_it)
            /\ pc' = "incremental_loop"
            /\ UNCHANGED ret
    /\ UNCHANGED << traffic, healing_prot, switch_min_time, algorithm, frames_it,
                    shp_offsets, solver, incumbent, no_incumbent, written, hyperperiod,
                    num_frames_fixed, sorted_trans, failed, exit_code, solcount,
                    verified, timeslot >>

\* after the loop: check_schedule, close_solver and the return of schedule_network
IncrementalFinish ==
    /\ pc = "incremental_loop"
    /\ frames_scheduled >= Len(traffic)
    /\ pc' = "write_schedule_xml"
    /\ verified' = (check_schedule(traffic, offsets, shp_offsets) = 0)
    /\ IF check_schedule(traffic, offsets, shp_offsets) # 0
       THEN ret' = -1 /\ UNCHANGED solver
       ELSE ret' = 0 /\ solver' = "closed"
    /\ UNCHANGED << traffic, healing_prot, switch_min_time, algorithm, frames_it,
                    offsets, shp_offsets, model, incumbent, frames_scheduled, it,
                    no_incumbent, written, hyperperiod, num_frames_fixed, sorted_trans,
                    failed, exit_code, solcount, timeslot >>

\* main ignores what schedule_network returned
WriteScheduleXml ==
    /\ pc = "write_schedule_xml"
    /\ pc' = "exit"
    /\ written' = written \cup {"schedule"}
    /\ exit_code' = 0
    /\ UNCHANGED << traffic, healing_prot, switch_min_time, algorithm, frames_it,
                    offsets, shp_offsets, model, solver, incumbent, frames_scheduled,
                    it, ret, no_incumbent, hyperperiod, num_frames_fixed, sorted_trans,
                    failed, solcount, verified, timeslot >>

Next ==
    \/ ReadNetworkXml
    \/ PrepareNetwork
    \/ ReadScheduleParametersXml
    \/ OneShotOptimize
    \/ OneShotFinish
    \/ IncrementalStart
    \/ IncrementalOptimize
    \/ IncrementalSave
    \/ IncrementalFinish
    \/ WriteScheduleXml

Spec == Init /\ [][Next]_vars

----------------------------------------------------------------------------
(* check_schedule as a function of the offset table: any table of transmission *)
(* times for a network prepare_network has prepared                            *)

VerifyInit ==
    /\ pc = "check_schedule"
    /\ traffic \in {frames \in TrafficInputs :
                        \A i \in 1..Len(frames) : frames[i].starting = 0}
    /\ healing_prot \in ProtocolInputs
    /\ size_timeslot(traffic, Len(traffic), healing_prot) = 1
    /\ switch_min_time \in SwitchTimes
    /\ hyperperiod = Hyperperiod(traffic, Len(traffic))
    /\ Cardinality(OffsetKeys(traffic)) <= MaxCells
    /\ offsets \in [OffsetKeys(traffic) -> 0..(hyperperiod - 1)]
    /\ shp_offsets = [k \in ReservationKeys |-> k[2] * reservation.period]
    /\ algorithm = "one_shot"
    /\ frames_it = 1
    /\ model = EmptyModel
    /\ solver = "open"
    /\ incumbent = << >>
    /\ frames_scheduled = 0
    /\ it = 1
    /\ ret = "none"
    /\ no_incumbent = FALSE
    /\ written = {}
    /\ num_frames_fixed = 0
    /\ sorted_trans = << >>
    /\ failed = {}
    /\ exit_code = "none"
    /\ solcount = 0
    /\ verified = FALSE
    /\ timeslot = 0

CheckSchedule ==
    /\ pc = "check_schedule"
    /\ ret' = check_schedule(traffic, offsets, shp_offsets)
    /\ verified' = (check_schedule(traffic, offsets, shp_offsets) = 0)
    /\ pc' = "checked"
    /\ UNCHANGED << traffic, healing_prot, switch_min_time, algorithm, frames_it,
                    offsets, shp_offsets, model, solver, incumbent, frames_scheduled,
                    it, no_incumbent, written, hyperperiod, num_frames_fixed,
                    sorted_trans, failed, exit_code, solcount, timeslot >>

VerifyNext == CheckSchedule

SpecVerify == VerifyInit /\ [][VerifyNext]_vars

----------------------------------------------------------------------------
(* incremental_approach as a loop: schedule_network entered in incremental    *)
(* mode with a prepared network of up to three frames and any FramesIteration *)
(* that atoi gives read_schedule_parameters_xml, which stores it untested.    *)
(* ret and exit_code are integers throughout: 1 stands for no value yet       *)
(* (schedule_network returns 0 or -1, main returns 0).                        *)

LoopFrameCounts == {1, 2, 3}
LoopFramesIterations == {-1, 0, 1, 2, 3}
LoopFrameInputs ==
    {fr \in FrameInputs : /\ fr.period = 6
                          /\ fr.time = 1
                          /\ fr.end_to_end = 2
                          /\ fr.paths = << <<0>> >>}
LoopTrafficInputs == UNION {[1..n -> LoopFrameInputs] : n \in LoopFrameCounts}

IncrementalInit ==
    /\ pc = "schedule_network"
    /\ traffic \in LoopTrafficInputs
    /\ healing_prot = Inactive
    /\ switch_min_time = 0
    /\ hyperperiod = Hyperperiod(traffic, Len(traffic))
    /\ offsets = [k \in OffsetKeys(traffic) |-> -1]
    /\ shp_offsets = << >>
    /\ algorithm = "incremental"
    /\ frames_it \in LoopFramesIterations
    /\ model = EmptyModel
    /\ solver = "none"
    /\ incumbent = << >>
    /\ frames_scheduled = 0
    /\ it = 1
    /\ ret = 1
    /\ no_incumbent = FALSE
    /\ written = {}
    /\ num_frames_fixed = 0
    /\ sorted_trans = << >>
    /\ failed = {}
    /\ exit_code = 1
    /\ solcount = 0
    /\ verified = FALSE
    /\ timeslot = 0

IncrementalNext ==
    \/ IncrementalStart
    \/ IncrementalOptimize
    \/ IncrementalSave
    \/ IncrementalFinish
    \/ WriteScheduleXml

SpecIncremental == IncrementalInit /\ [][IncrementalNext]_vars

\* the process runs until main returns: a step that can be taken is taken (every
\* step moves pc)
SpecIncrementalFair == SpecIncremental /\ WF_pc(IncrementalNext)

----------------------------------------------------------------------------
(* schedule_network on frames whose deadline may come before the period and   *)
(* whose starting time may come late, so that the windows of two instances    *)
(* need not meet.  All the frames start on link 0; there is no reservation.   *)

WindowFrameInputs ==
    {fr \in [period : Periods, deadline : {3, 6}, starting : {0, 3}, end_to_end : {2},
             time : 1..MaxTime, paths : PathLists] :
        /\ fr.deadline <= fr.period
        /\ fr.starting < fr.deadline}

WindowTrafficInputs == UNION {[1..n -> WindowFrameInputs] : n \in FrameCounts}

\* the state read_schedule_parameters_xml leaves
WindowInit ==
    /\ pc = "schedule_network"
    /\ traffic \in WindowTrafficInputs
    /\ healing_prot = Inactive
    /\ switch_min_time = 0
    /\ hyperperiod = Hyperperiod(traffic, Len(traffic))
    /\ offsets = [k \in OffsetKeys(traffic) |-> -1]
    /\ shp_offsets = << >>
    /\ algorithm \in {"one_shot", "incremental"}
    /\ frames_it = 1
    /\ model = EmptyModel
    /\ solver = "none"
    /\ incumbent = << >>
    /\ frames_scheduled = 0
    /\ it = 1
    /\ ret = 1
    /\ no_incumbent = FALSE
    /\ written = {}
    /\ num_frames_fixed = 0
    /\ sorted_trans = << >>
    /\ failed = {}
    /\ exit_code = 1
    /\ solcount = 0
    /\ verified = FALSE
    /\ timeslot = 0

WindowNext ==
    \/ OneShotOptimize
    \/ OneShotFinish
    \/ IncrementalStart
    \/ IncrementalOptimize
    \/ IncrementalSave
    \/ IncrementalFinish
    \/ WriteScheduleXml

SpecWindow == WindowInit /\ [][WindowNext]_vars

----------------------------------------------------------------------------
(* Frame.c: set_deadline, set_starting_time and set_end_to_end, called with   *)
(* any argument on a frame that read_traffic_xml has filled.                  *)

\* each setter gives its return value and the frame it leaves
set_deadline(fr, deadline) ==
    IF deadline < 0 THEN [ret |-> -1, frame |-> fr]
    ELSE IF deadline > fr.period THEN [ret |-> -1, frame |-> fr]
    ELSE IF deadline = 0 THEN [ret |-> 0, frame |-> [fr EXCEPT !.deadline = fr.period]]
    ELSE [ret |-> 0, frame |-> [fr EXCEPT !.deadline = deadline]]

\* set_starting_time without the test against the deadline
set_starting_time_unbounded(fr, starting_time) ==
    IF starting_time < 0 THEN [ret |-> -1, frame |-> fr]
    ELSE [ret |-> 0, frame |-> [fr EXCEPT !.starting = starting_time]]

set_starting_time(fr, starting_time) ==
    IF starting_time < 0 THEN [ret |-> -1, frame |-> fr]
    ELSE IF starting_time >= fr.deadline THEN [ret |-> -1, frame |-> fr]
    ELSE [ret |-> 0, frame |-> [fr EXCEPT !.starting = starting_time]]

set_end_to_end(fr, end_to_end) ==
    IF end_to_end < 0 THEN [ret |-> -1, frame |-> fr]
    ELSE IF end_to_end >= fr.deadline THEN [ret |-> -1, frame |-> fr]
    ELSE [ret |-> 0, frame |-> [fr EXCEPT !.end_to_end = end_to_end]]

\* the arguments of the calls: negative, 0, inside and beyond every period
SetterArguments == -1..7

\* the frames the setters are called on: what set_period, set_deadline,
\* set_starting_time and set_end_to_end of read_traffic_xml accept in that order
SetterFrames ==
    {fr \in [period : Periods, deadline : 1..6, starting : 0..5, end_to_end : 0..5] :
        /\ fr.deadline <= fr.period
        /\ fr.starting < fr.deadline
        /\ fr.end_to_end < fr.deadline}

SettersInit ==
    /\ pc = "frame"
    /\ traffic \in [1..1 -> SetterFrames]
    /\ healing_prot = Inactive
    /\ switch_min_time = 0
    /\ algorithm = "one_shot"
    /\ frames_it = 1
    /\ offsets = << >>
    /\ shp_offsets = << >>
    /\ model = EmptyModel
    /\ solver = "none"
    /\ incumbent = << >>
    /\ frames_scheduled = 0
    /\ it = 1
    /\ ret = 0
    /\ no_incumbent = FALSE
    /\ written = {}
    /\ hyperperiod = 0
    /\ num_frames_fixed = 0
    /\ sorted_trans = << >>
    /\ failed = {}
    /\ exit_code = "none"
    /\ solcount = 0
    /\ verified = FALSE
    /\ timeslot = 0

\* what a call of a setter leaves: the frame, the return value and the name of
\* the setter called last
SetterCall(name, result) ==
    /\ pc' = name
    /\ traffic' = [traffic EXCEPT ![1] = result.frame]
    /\ ret' = result.ret
    /\ UNCHANGED << healing_prot, switch_min_time, algorithm, frames_it, offsets,
                    shp_offsets, model, solver, incumbent, frames_scheduled, it,
                    no_incumbent, written, hyperperiod, num_frames_fixed, sorted_trans,
                    failed, exit_code, solcount, verified, timeslot >>

SetDeadlineTo(deadline) == SetterCall("set_deadline", set_deadline(traffic[1], deadline))
SetStartingTimeTo(starting_time) ==
    SetterCall("set_starting_time", set_starting_time(traffic[1], starting_time))
SetEndToEndTo(end_to_end) ==
    SetterCall("set_end_to_end", set_end_to_end(traffic[1], end_to_end))

SetDeadline == \E deadline \in SetterArguments : SetDeadlineTo(deadline)
SetStartingTime == \E starting_time \in SetterArguments : SetStartingTimeTo(starting_time)
SetEndToEnd == \E end_to_end \in SetterArguments : SetEndToEndTo(end_to_end)

SettersNext == SetDeadline \/ SetStartingTime \/ SetEndToEnd

SpecSetters == SettersInit /\ [][SettersNext]_vars

----------------------------------------------------------------------------
(* Network.c: read_traffic_xml and prepare_network on documents whose times   *)
(* are not yet in timeslots.  A frame carries its offset graph: heap holds    *)
(* the Offset objects init_offsets allocates (an object is named by its       *)
(* place in heap), offset_it, offset_hash and list_offsets hold pointers to   *)
(* them, NULL is 0.                                                           *)

NULL == 0

\* the quotient of the division of C, which truncates towards 0 (b > 0)
cdiv(a, b) == IF a >= 0 THEN a \div b ELSE -((-a) \div b)

\* the speed of the links of the topology, in MB/s (set_link)
get_speed(link_id) == IF link_id = 0 THEN 1000 ELSE 2000

\* the bytes malloc gives for a request: the request rounded up to the size
\* of a pointer, the least granularity of an allocator for 64 bits
malloc_usable_size(bytes) == ((bytes + 7) \div 8) * 8

set_period(fr, period) ==
    IF period <= 0 THEN [ret |-> -1, frame |-> fr]
    ELSE [ret |-> 0, frame |-> [fr EXCEPT !.period = period]]

\* init_offsets after position j of path i: the offset of a link is allocated
\* when offset_hash has none for it, and the position points to the offset of
\* offset_hash (j = 0: list_offsets of path i has been allocated)
RECURSIVE OffsetWalkUnshared(_, _, _, _)
OffsetWalkUnshared(fr, instances, i, j) ==
    IF i = 0 THEN fr
    ELSE IF j = 0
    THEN LET st == OffsetWalkUnshared(fr, instances, i - 1,
                                      IF i = 1 THEN 0 ELSE Len(fr.paths[i - 1]))
         IN  [st EXCEPT !.list_offsets = Append(@, << >>)]
    ELSE LET st == OffsetWalkUnshared(fr, instances, i, j - 1)
             link_id == fr.paths[i][j]
             st1 == [st EXCEPT
                        !.heap = Append(@, [link_id |-> link_id,
                                            num_instances |-> instances, time |-> -1]),
                        !.offset_hash[link_id] = Len(st.heap) + 1,
                        !.offset_it = Append(@, Len(st.heap) + 1)]
         IN  [st1 EXCEPT !.list_offsets[i] = Append(@, st1.offset_hash[link_id])]

RECURSIVE OffsetWalk(_, _, _, _)
OffsetWalk(fr, instances, i, j) ==
    IF i = 0 THEN fr
    ELSE IF j = 0
    THEN LET st == OffsetWalk(fr, instances, i - 1,
                              IF i = 1 THEN 0 ELSE Len(fr.paths[i - 1]))
         IN  [st EXCEPT !.list_offsets = Append(@, << >>)]
    ELSE LET st == OffsetWalk(fr, instances, i, j - 1)
             link_id == fr.paths[i][j]
             st1 == IF st.offset_hash[link_id] = NULL
                    THEN [st EXCEPT
                             !.heap = Append(@, [link_id |-> link_id,
                                                 num_instances |-> instances,
                                                 time |-> -1]),
                             !.offset_hash[link_id] = Len(st.heap) + 1,
                             !.offset_it = Append(@, Len(st.heap) + 1)]
                    ELSE st
         IN  [st1 EXCEPT !.list_offsets[i] = Append(@, st1.offset_hash[link_id])]

\* offset_hash is a block of sizeof(Offset*) * max_link_id + 1 bytes: it has
\* the entries that fit in what malloc gives for it
init_offsets(fr, max_link_id, hp) ==
    LET entries == malloc_usable_size(8 * max_link_id + 1) \div 8
        instances == cdiv(hp, fr.period)
        fr0 == [fr EXCEPT !.heap = << >>,
                          !.offset_it = << >>,
                          !.offset_hash = [l \in 0..(entries - 1) |-> NULL],
                          !.list_offsets = << >>]
    IN  IF Len(fr.paths) = 0 THEN fr0
        ELSE OffsetWalk(fr0, instances, Len(fr.paths), Len(fr.paths[Len(fr.paths)]))

\* a frame as read_traffic_xml leaves it, its offsets not yet initialised
ReadFrame(period, deadline, starting, end_to_end, size, paths) ==
    [period |-> period, deadline |-> deadline, starting |-> starting,
     end_to_end |-> end_to_end, size |-> size, paths |-> paths,
     heap |-> << >>, offset_it |-> << >>, offset_hash |-> << >>, list_offsets |-> << >>]

\* the transmission time taken in bits over MB/s
time_frame_bits(fr, link_id) == cdiv(fr.size * 8 * 1000, get_speed(link_id))

\* the transmission time in ns of a frame on a link
time_frame(fr, link_id) == cdiv(fr.size * 1000, get_speed(link_id))

\* size_timeslot after the offsets 1..j of a frame, ts before them
RECURSIVE FrameTimeslot(_, _, _)
FrameTimeslot(fr, j, ts) ==
    IF j = 0 THEN ts
    ELSE LET prev == FrameTimeslot(fr, j - 1, ts)
             link_id == fr.heap[fr.offset_it[j]].link_id
             time == IF time_frame(fr, link_id) = 0 THEN 1 ELSE time_frame(fr, link_id)
         IN  IF prev = 0 THEN time ELSE gcd(prev, time)

\* size_timeslot after the frames 1..n
RECURSIVE TrafficTimeslot(_, _, _)
TrafficTimeslot(frames, n, ts) ==
    IF n = 0 THEN ts
    ELSE FrameTimeslot(frames[n], Len(frames[n].offset_it),
                       TrafficTimeslot(frames, n - 1, ts))

\* the frame after the setters have been given its times divided by the
\* timeslot, and its offsets their transmission time in timeslots
NormalizeFrame(fr, ts) ==
    LET f1 == set_period(fr, cdiv(fr.period, ts)).frame
        f2 == set_deadline(f1, cdiv(f1.deadline, ts)).frame
        f3 == set_starting_time(f2, cdiv(f2.starting, ts)).frame
        f4 == set_end_to_end(f3, cdiv(f3.end_to_end, ts)).frame
    IN  [f4 EXCEPT !.heap =
            [o \in DOMAIN f4.heap |->
                [f4.heap[o] EXCEPT !.time = cdiv(time_frame(fr, f4.heap[o].link_id), ts)]]]

NetPathLists ==
    { << <<0>> >>, << <<0, 1>> >>, << <<0>>, <<0, 1>> >>, << <<0, 1>>, <<1>> >>,
      << <<0>>, <<1>> >> }
NetSizes == {1, 2, 4}
NetPeriods == {4, 6}

\* deadline (0: the period), starting time and end-to-end bound of a frame
NetTimings == { <<0, 0, 0>>, <<3, 2, 0>>, <<0, 0, 2>> }

NetFrameInputs ==
    {ReadFrame(p, IF t[1] = 0 THEN p ELSE t[1], t[2], t[3], s, paths) :
        p \in NetPeriods, t \in NetTimings, s \in NetSizes, paths \in NetPathLists}

\* no frame: read_traffic_xml has returned -1 before the first frame
NetTrafficInputs == {<< >>} \cup UNION {[1..n -> NetFrameInputs] : n \in FrameCounts}

\* MinimumTime of the switches in ns (read_switch_xml)
NetSwitchTimes == {0, 2}

\* the state read_network_xml leaves, size_timeslot being 0 at the start
NetworkInit ==
    /\ pc = "prepare_network"
    /\ traffic \in NetTrafficInputs
    /\ healing_prot \in ProtocolInputs
    /\ switch_min_time \in NetSwitchTimes
    /\ algorithm = "one_shot"
    /\ frames_it = 1
    /\ offsets = << >>
    /\ shp_offsets = << >>
    /\ model = EmptyModel
    /\ solver = "none"
    /\ incumbent = << >>
    /\ frames_scheduled = 0
    /\ it = 1
    /\ ret = 0
    /\ no_incumbent = FALSE
    /\ written = {}
    /\ hyperperiod = Hyperperiod(traffic, Len(traffic))
    /\ num_frames_fixed = 0
    /\ sorted_trans = << >>
    /\ failed = {}
    /\ exit_code = "none"
    /\ solcount = 0
    /\ verified = FALSE
    /\ timeslot = 0

\* prepare_network, called once and then once more on what it has left.
\* prepare_healing_protocol starts size_timeslot from the time of the protocol;
\* the reservation frame is given the period and the time of healing_prot.
PrepareNetworkNs ==
    /\ pc \in {"prepare_network", "prepared"}
    /\ LET start == IF healing_prot.period # 0 THEN healing_prot.time ELSE timeslot
           frames == [i \in 1..Len(traffic) |->
                         init_offsets(traffic[i], higher_link_id, hyperperiod)]
           ts == TrafficTimeslot(frames, Len(frames), start)
       IN  /\ timeslot' = ts
           /\ IF ts = 0
              THEN /\ ret' = -1
                   /\ traffic' = frames
                   /\ UNCHANGED << hyperperiod, healing_prot >>
              ELSE /\ ret' = 0
                   /\ hyperperiod' = cdiv(hyperperiod, ts)
                   /\ traffic' = [i \in 1..Len(frames) |-> NormalizeFrame(frames[i], ts)]
                   /\ healing_prot' =
                         IF healing_prot.period # 0
                         THEN [period |-> cdiv(healing_prot.period, ts),
                               time |-> cdiv(healing_prot.time, ts)]
                         ELSE healing_prot
    /\ pc' = IF pc = "prepare_network" THEN "prepared" ELSE "prepared_again"
    /\ UNCHANGED << switch_min_time, algorithm, frames_it, offsets, shp_offsets, model,
                    solver, incumbent, frames_scheduled, it, no_incumbent, written,
                    num_frames_fixed, sorted_trans, failed, exit_code, solcount,
                    verified >>

NetworkNext == PrepareNetworkNs

SpecNetwork == NetworkInit /\ [][NetworkNext]_vars

----------------------------------------------------------------------------
(* read_traffic_xml and the offsets of prepare_network on documents whose     *)
(* times are all given in one unit, ns or s.  The state holds the times in    *)
(* the unit of the document: convert_to_ns multiplies them by 1 or by 10^9,   *)
(* and every time of the program is a long long int of 64 bits.               *)

TimeUnits == {"ns", "s"}
DocumentPeriods == {2, 3, 4, 10, 15}
DocumentFrameCounts == {1, 2, 3}
PeriodLists == UNION {[1..n -> DocumentPeriods] : n \in DocumentFrameCounts}

\* hyperperiod * period is beyond LLONG_MAX = 9223372036854775807: for times
\* of h and p seconds the product is h * p * 10^18 ns^2, beyond it when
\* h * p > 9; for times in ns the products of these documents are far below it
ProductOverflows(h, p, unit) == unit = "s" /\ h * p > 9

\* what a hyperperiod whose product has overflowed may be: a negative value
\* or a positive one
OverflowedHyperperiods == {-1, 5}

\* the frames of a document that gives only the periods: deadline the period,
\* size 1000 bytes, starting time and end-to-end bound 0, one path over link 0
DocumentFrames(periods) ==
    [i \in 1..Len(periods) |-> ReadFrame(periods[i], periods[i], 0, 0, 1000, << <<0>> >>)]

TrafficInit ==
    /\ pc = "read_traffic_xml"
    /\ traffic = << >>
    /\ healing_prot = Inactive
    /\ switch_min_time = 0
    /\ algorithm = "one_shot"
    /\ frames_it = 1
    /\ offsets = << >>
    /\ shp_offsets = << >>
    /\ model = EmptyModel
    /\ solver = "none"
    /\ incumbent = << >>
    /\ frames_scheduled = 0
    /\ it = 1
    /\ ret = 0
    /\ no_incumbent = FALSE
    /\ written = {}
    /\ hyperperiod = 0
    /\ num_frames_fixed = 0
    /\ sorted_trans = << >>
    /\ failed = {}
    /\ exit_code = "none"
    /\ solcount = 0
    /\ verified = FALSE
    /\ timeslot = 0

\* the hyperperiod is recalculated at every frame as hyperperiod * period /
\* gcd; a signed product that overflows leaves any value
ReadTrafficXml ==
    /\ pc = "read_traffic_xml"
    /\ \E unit \in TimeUnits, periods \in PeriodLists :
          LET frames == DocumentFrames(periods)
          IN  /\ traffic' = frames
              /\ IF \E n \in 2..Len(frames) :
                       ProductOverflows(Hyperperiod(frames, n - 1), periods[n], unit)
                 THEN hyperperiod' \in OverflowedHyperperiods
                 ELSE hyperperiod' = Hyperperiod(frames, Len(frames))
    /\ ret' = 0
    /\ pc' = "prepare_network"
    /\ UNCHANGED << healing_prot, switch_min_time, algorithm, frames_it, offsets,
                    shp_offsets, model, solver, incumbent, frames_scheduled, it,
                    no_incumbent, written, num_frames_fixed, sorted_trans, failed,
                    exit_code, solcount, verified, timeslot >>

\* prepare_network up to the offsets of the frames: prepare_healing_protocol,
\* then init_offsets for every frame
InitOffsets ==
    /\ pc = "prepare_network"
    /\ timeslot' = IF healing_prot.period # 0 THEN healing_prot.time ELSE timeslot
    /\ traffic' = [i \in 1..Len(traffic) |->
                      init_offsets(traffic[i], higher_link_id, hyperperiod)]
    /\ pc' = "adjust_timeslot"
    /\ UNCHANGED << healing_prot, switch_min_time, algorithm, frames_it, offsets,
                    shp_offsets, model, solver, incumbent, frames_scheduled, it, ret,
                    no_incumbent, written, hyperperiod, num_frames_fixed, sorted_trans,
                    failed, exit_code, solcount, verified >>

TrafficNext == ReadTrafficXml \/ InitOffsets

SpecTraffic == TrafficInit /\ [][TrafficNext]_vars

----------------------------------------------------------------------------
(* patch.c: read_patch_xml; patch; write_execution_time_xml; write_patch_xml   *)
(* The frames of a patch have one offset, on the patched link (link 0 here).   *)
(* traffic holds the fixed frames first, then the frames to allocate.          *)

\* a fixed frame: the TransmissionTime of its instances, time = EndingTime -
\* TransmissionTime of instance 0 (read_patch_fixed_traffix_xml)
FixedFrame(trans, time) ==
    [fixed |-> TRUE, trans |-> trans, min |-> << >>, max |-> << >>, time |-> time]

\* a frame to allocate: MinTransmission / MaxTransmission of its instances and
\* TimeSlots (read_patch_traffic_xml)
PatchFrame(min, max, time) ==
    [fixed |-> FALSE, trans |-> << >>, min |-> min, max |-> max, time |-> time]

PatchHyperperiods == {6}
PatchProtocols == {Inactive, [period |-> 3, time |-> 1], [period |-> 6, time |-> 2],
                   [period |-> 8, time |-> 1]}
FixedTransmissions == {1, 4}
PatchMins == {0, 1, 2}
PatchMaxs == {2, 5}
PatchInstances == {1, 2}

FixedInputs == {<< >>} \cup {<<FixedFrame(<<t>>, d)>> : t \in FixedTransmissions, d \in 1..MaxTime}

\* the ranges of a frame of n instances repeat with its period hp / n
PatchFrameInputs(hp) ==
    {PatchFrame([i \in 1..n |-> a + ((i - 1) * (hp \div n))],
                [i \in 1..n |-> b + ((i - 1) * (hp \div n))], d) :
        <<n, a, b, d>> \in {q \in PatchInstances \X PatchMins \X PatchMaxs \X (1..MaxTime) :
                              q[2] <= q[3] /\ q[3] < hp \div q[1]}}

PatchTrafficInputs(hp) == UNION {[1..n -> PatchFrameInputs(hp)] : n \in FrameCounts}

\* the patch of the scenario: SHP at 0 for 20 timeslots, a fixed frame at 100 for
\* 50, a frame to allocate in [0, 200] for 30
ScenarioPatch ==
    [hyperperiod |-> 1000, protocol |-> [period |-> 1000, time |-> 20],
     frames |-> <<FixedFrame(<<100>>, 50), PatchFrame(<<0>>, <<200>>, 30)>>]

PatchInputs ==
    UNION {{[hyperperiod |-> hp, protocol |-> prot, frames |-> fx \o nw] :
               prot \in PatchProtocols, fx \in FixedInputs, nw \in PatchTrafficInputs(hp)} :
           hp \in PatchHyperperiods} \cup {ScenarioPatch}

\* what a cell malloc'ed by init_offset_patch may hold before set_trans_time
Indeterminate == {-1, 9}

get_num_fixed_frames(frames) == Cardinality({i \in 1..Len(frames) : frames[i].fixed})

PatchKeys(frames) ==
    UNION {{<<f, 0, inst>> : inst \in 0..(Len(IF frames[f].fixed THEN frames[f].trans
                                                ELSE frames[f].min) - 1)} :
           f \in 1..Len(frames)}

InsertAt(list, pos, e) ==
    [i \in 1..(Len(list) + 1) |->
        IF i < pos THEN list[i] ELSE IF i = pos THEN e ELSE list[i - 1]]

\* the block always added after the last one
insert_fixed_trans_appended(head, transmission_time, ending_time) ==
    InsertAt(head, Len(head) + 1, <<transmission_time, ending_time>>)

insert_fixed_trans(head, transmission_time, ending_time) ==
    LET after == {i \in 1..Len(head) : \A j \in 1..i : head[j][1] <= transmission_time}
    IN  InsertAt(head, Cardinality(after) + 1, <<transmission_time, ending_time>>)

\* the walk of allocate_offset_patch from list position idx with the candidate
\* [starting, starting + time_slots - 1]: where it is inserted, or NULL
RECURSIVE WalkList(_, _, _, _, _, _)
WalkList(head, idx, starting, min, max, time_slots) ==
    IF idx > Len(head) \/ starting + time_slots - 1 < head[idx][1]
    THEN [null |-> FALSE, pos |-> idx, starting |-> starting]
    ELSE IF head[idx][2] > min
         THEN IF head[idx][2] + 1 > max
              THEN [null |-> TRUE, pos |-> 0, starting |-> 0]
              ELSE WalkList(head, idx + 1, head[idx][2] + 1, min, max, time_slots)
         ELSE WalkList(head, idx + 1, starting, min, max, time_slots)

\* the list it returns (<< >> for NULL), and the start it gives set_trans_time:
\* none when head was NULL
allocate_offset_patch(head, min, max, time_slots) ==
    IF head = << >>
    THEN [head |-> << <<min, min + time_slots - 1>> >>, recorded |-> FALSE, starting |-> min]
    ELSE LET w == WalkList(head, 1, min, min, max, time_slots)
         IN  IF w.null THEN [head |-> << >>, recorded |-> FALSE, starting |-> 0]
             ELSE [head |-> InsertAt(head, w.pos,
                                     <<w.starting, w.starting + time_slots - 1>>),
                   recorded |-> TRUE, starting |-> w.starting]

RECURSIVE InsertInstances(_, _, _, _)
InsertInstances(head, trans, time_slots, n) ==
    IF n = 0 THEN head
    ELSE insert_fixed_trans(InsertInstances(head, trans, time_slots, n - 1),
                            trans[n], trans[n] + time_slots)

RECURSIVE InsertFixedFrames(_, _, _)
InsertFixedFrames(head, frames, num) ==
    IF num = 0 THEN head
    ELSE InsertInstances(InsertFixedFrames(head, frames, num - 1), frames[num].trans,
                         frames[num].time, Len(frames[num].trans))

RECURSIVE InsertProtocol(_, _)
InsertProtocol(head, instances_protocol) ==
    IF instances_protocol = 0 THEN head
    ELSE LET trans_time == healing_prot.period * (instances_protocol - 1)
         IN  insert_fixed_trans(InsertProtocol(head, instances_protocol - 1),
                                trans_time, trans_time + healing_prot.time)

PatchInit ==
    /\ pc = "read_patch_xml"
    /\ traffic = << >>
    /\ healing_prot = Inactive
    /\ switch_min_time = 0
    /\ algorithm = "one_shot"
    /\ frames_it = 1
    /\ offsets = << >>
    /\ shp_offsets = << >>
    /\ model = EmptyModel
    /\ solver = "none"
    /\ incumbent = << >>
    /\ frames_scheduled = 0
    /\ it = 0
    /\ ret = "none"
    /\ no_incumbent = FALSE
    /\ written = {}
    /\ hyperperiod = 0
    /\ num_frames_fixed = 0
    /\ sorted_trans = << >>
    /\ failed = {}
    /\ exit_code = "none"
    /\ solcount = 0
    /\ verified = FALSE
    /\ timeslot = 0

\* the cells of the fixed frames hold their TransmissionTime; the cells of the
\* frames to allocate hold whatever malloc left there
ReadPatchXml ==
    /\ pc = "read_patch_xml"
    /\ \E doc \in PatchInputs :
          /\ traffic' = doc.frames
          /\ healing_prot' = doc.protocol
          /\ hyperperiod' = doc.hyperperiod
          /\ num_frames_fixed' = get_num_fixed_frames(doc.frames)
          /\ \E cells \in [{k \in PatchKeys(doc.frames) : ~doc.frames[k[1]].fixed} ->
                              Indeterminate] :
                offsets' = [k \in PatchKeys(doc.frames) |->
                               IF doc.frames[k[1]].fixed THEN doc.frames[k[1]].trans[k[3] + 1]
                               ELSE cells[k]]
    /\ pc' = "prepare_fixed_traffic"
    /\ UNCHANGED << switch_min_time, algorithm, frames_it, shp_offsets, model, solver,
                    incumbent, frames_scheduled, it, ret, no_incumbent, written,
                    sorted_trans, failed, exit_code, solcount, verified, timeslot >>

\* prepare_fixed_traffic; hyperperiod / protocol.period with period = 0 is a
\* division by zero: the process is killed, or the quotient is 0
PrepareFixedTraffic ==
    /\ pc = "prepare_fixed_traffic"
    /\ LET fixed == InsertFixedFrames(sorted_trans, traffic, num_frames_fixed)
       IN  IF healing_prot.period = 0
           THEN \/ pc' = "killed" /\ UNCHANGED sorted_trans
                \/ pc' = "allocate_patch_traffic" /\ sorted_trans' = fixed
           ELSE /\ pc' = "allocate_patch_traffic"
                /\ sorted_trans' = InsertProtocol(fixed, hyperperiod \div healing_prot.period)
    /\ UNCHANGED << traffic, healing_prot, switch_min_time, algorithm, frames_it,
                    offsets, shp_offsets, model, solver, incumbent, frames_scheduled,
                    it, ret, no_incumbent, written, hyperperiod, num_frames_fixed,
                    failed, exit_code, solcount, verified, timeslot >>

\* allocate_patch_traffic going on with the next instance after a NULL
AllocateOffsetPatchSkipping ==
    /\ pc = "allocate_patch_traffic"
    /\ LET fr_it == num_frames_fixed + frames_scheduled + 1
           fr == traffic[fr_it]
           a == allocate_offset_patch(sorted_trans, fr.min[it + 1], fr.max[it + 1], fr.time)
           last_inst == (it + 1 = Len(fr.min))
       IN  /\ sorted_trans' = IF a.head = << >> THEN sorted_trans ELSE a.head
           /\ offsets' = IF a.recorded THEN [offsets EXCEPT ![<<fr_it, 0, it>>] = a.starting]
                         ELSE offsets
           /\ it' = IF last_inst THEN 0 ELSE it + 1
           /\ frames_scheduled' = IF last_inst THEN frames_scheduled + 1
                                  ELSE frames_scheduled
           /\ IF last_inst /\ fr_it = Len(traffic)
              THEN ret' = 0 /\ pc' = "write_execution_time_xml"
              ELSE UNCHANGED << ret, pc >>
    /\ UNCHANGED << traffic, healing_prot, switch_min_time, algorithm, frames_it,
                    shp_offsets, model, solver, incumbent, no_incumbent, written,
                    hyperperiod, num_frames_fixed, failed, exit_code, solcount, verified,
                    timeslot >>

\* one call of allocate_offset_patch in the loops of allocate_patch_traffic, for
\* instance it of the frame after the frames_scheduled already allocated; the
\* return of allocate_patch_traffic and patch after a NULL or after the last call
AllocateOffsetPatch ==
    /\ pc = "allocate_patch_traffic"
    /\ LET fr_it == num_frames_fixed + frames_scheduled + 1
           fr == traffic[fr_it]
           a == allocate_offset_patch(sorted_trans, fr.min[it + 1], fr.max[it + 1], fr.time)
           last_inst == (it + 1 = Len(fr.min))
       IN  /\ sorted_trans' = a.head
           /\ offsets' = IF a.recorded THEN [offsets EXCEPT ![<<fr_it, 0, it>>] = a.starting]
                         ELSE offsets
           /\ IF a.head = << >>
              THEN /\ ret' = -1
                   /\ pc' = "write_execution_time_xml"
                   /\ UNCHANGED << frames_scheduled, it >>
              ELSE /\ it' = IF last_inst THEN 0 ELSE it + 1
                   /\ frames_scheduled' = IF last_inst THEN frames_scheduled + 1
                                          ELSE frames_scheduled
                   /\ IF last_inst /\ fr_it = Len(traffic)
                      THEN ret' = 0 /\ pc' = "write_execution_time_xml"
                      ELSE UNCHANGED << ret, pc >>
    /\ UNCHANGED << traffic, healing_prot, switch_min_time, algorithm, frames_it,
                    shp_offsets, model, solver, incumbent, no_incumbent, written,
                    hyperperiod, num_frames_fixed, failed, exit_code, solcount, verified,
                    timeslot >>

\* main of patch.c without the return after the first write_execution_time_xml
WriteExecutionTimeXmlThenPatch ==
    /\ pc = "write_execution_time_xml"
    /\ written' = written \cup {"execution_time"}
    /\ pc' = "write_patch_xml"
    /\ UNCHANGED << traffic, healing_prot, switch_min_time, algorithm, frames_it,
                    offsets, shp_offsets, model, solver, incumbent, frames_scheduled,
                    it, ret, no_incumbent, hyperperiod, num_frames_fixed, sorted_trans,
                    failed, exit_code, solcount, verified, timeslot >>

\* patch() == -1: write_execution_time_xml and return 0; otherwise
\* write_execution_time_xml, then write_patch_xml
WriteExecutionTimeXml ==
    /\ pc = "write_execution_time_xml"
    /\ written' = written \cup {"execution_time"}
    /\ pc' = IF ret = -1 THEN "exit" ELSE "write_patch_xml"
    /\ exit_code' = IF ret = -1 THEN 0 ELSE exit_code
    /\ UNCHANGED << traffic, healing_prot, switch_min_time, algorithm, frames_it,
                    offsets, shp_offsets, model, solver, incumbent, frames_scheduled,
                    it, ret, no_incumbent, hyperperiod, num_frames_fixed, sorted_trans,
                    failed, solcount, verified, timeslot >>

WritePatchXml ==
    /\ pc = "write_patch_xml"
    /\ written' = written \cup {"patch"}
    /\ pc' = "exit"
    /\ exit_code' = 0
    /\ UNCHANGED << traffic, healing_prot, switch_min_time, algorithm, frames_it,
                    offsets, shp_offsets, model, solver, incumbent, frames_scheduled,
                    it, ret, no_incumbent, hyperperiod, num_frames_fixed, sorted_trans,
                    failed, solcount, verified, timeslot >>

PatchNext ==
    \/ ReadPatchXml
    \/ PrepareFixedTraffic
    \/ AllocateOffsetPatch
    \/ WriteExecutionTimeXml
    \/ WritePatchXml

SpecPatch == PatchInit /\ [][PatchNext]_vars

----------------------------------------------------------------------------
(* patch.c, then a later session on what it wrote: write_patch_xml of the      *)
(* frames patch() has allocated, and the readers of fixed traffic on the       *)
(* instances of that document.  written holds the document with its content.  *)

DigitChars == <<"0", "1", "2", "3", "4", "5", "6", "7", "8", "9">>

\* the decimal digits of n >= 0, the first one first
RECURSIVE DecimalDigits(_)
DecimalDigits(n) ==
    IF n < 10 THEN <<DigitChars[n + 1]>>
    ELSE Append(DecimalDigits(n \div 10), DigitChars[(n % 10) + 1])

\* sprintf(char_value, "%lld", n)
sprintf_lld(n) == IF n < 0 THEN <<"-">> \o DecimalDigits(-n) ELSE DecimalDigits(n)

\* the number the first k characters of a string of digits stand for
RECURSIVE DigitsValue(_, _)
DigitsValue(str, k) ==
    IF k = 0 THEN 0
    ELSE (DigitsValue(str, k - 1) * 10)
            + ((CHOOSE d \in 1..10 : DigitChars[d] = str[k]) - 1)

\* atoll on the text of a number
atoll(str) ==
    IF Len(str) > 0 /\ str[1] = "-"
    THEN -DigitsValue(Tail(str), Len(str) - 1)
    ELSE DigitsValue(str, Len(str))

\* the Instance elements write_patched_frame_xml adds for a frame whose cells
\* are trans
write_patched_frame_xml(trans, time) ==
    [h \in 1..Len(trans) |->
        [NumInstance |-> sprintf_lld(h - 1),
         TransmissionTime |-> sprintf_lld(trans[h]),
         EndingTime |-> sprintf_lld(trans[h] + time - 1)]]

\* the frame read_patch_fixed_traffix_xml and read_optimize_fixed_traffix_xml
\* make of the Instance elements of a frame
read_fixed_frame(instances) ==
    FixedFrame([j \in 1..Len(instances) |-> atoll(instances[j].TransmissionTime)],
               atoll(instances[1].EndingTime) - atoll(instances[1].TransmissionTime))

RereadHyperperiod == 12
RereadProtocol == [period |-> 12, time |-> 1]
RereadMins == {0, 2, 5, 9}

\* frames to allocate of one instance, anywhere after MinTransmission
RereadFrameInputs ==
    {PatchFrame(<<m>>, <<RereadHyperperiod - 1>>, d) : m \in RereadMins, d \in 1..MaxTime}

RereadTrafficInputs == UNION {[1..n -> RereadFrameInputs] : n \in FrameCounts}

\* allocate_patch_traffic on the frames 1..n of one instance each, on the list
\* prepare_fixed_traffic has left for the reservation: the list and the starts
\* recorded, or failed
RECURSIVE AllocatePatchTraffic(_, _)
AllocatePatchTraffic(frames, n) ==
    IF n = 0
    THEN [failed |-> FALSE,
          head |-> << <<0, RereadProtocol.time>> >>,
          starts |-> << >>]
    ELSE LET prev == AllocatePatchTraffic(frames, n - 1)
             a == allocate_offset_patch(prev.head, frames[n].min[1], frames[n].max[1],
                                        frames[n].time)
         IN  IF prev.failed \/ a.head = << >>
             THEN [failed |-> TRUE, head |-> << >>, starts |-> << >>]
             ELSE [failed |-> FALSE, head |-> a.head,
                   starts |-> Append(prev.starts, a.starting)]

\* the state patch() leaves when it returns 0
RereadInit ==
    /\ pc = "write_execution_time_xml"
    /\ traffic \in RereadTrafficInputs
    /\ healing_prot = RereadProtocol
    /\ hyperperiod = RereadHyperperiod
    /\ ~AllocatePatchTraffic(traffic, Len(traffic)).failed
    /\ sorted_trans = AllocatePatchTraffic(traffic, Len(traffic)).head
    /\ offsets = [k \in PatchKeys(traffic) |->
                     AllocatePatchTraffic(traffic, Len(traffic)).starts[k[1]]]
    /\ frames_scheduled = Len(traffic)
    /\ num_frames_fixed = 0
    /\ it = 0
    /\ ret = 0
    /\ written = {}
    /\ switch_min_time = 0
    /\ algorithm = "one_shot"
    /\ frames_it = 1
    /\ shp_offsets = << >>
    /\ model = EmptyModel
    /\ solver = "none"
    /\ incumbent = << >>
    /\ no_incumbent = FALSE
    /\ failed = {}
    /\ exit_code = "none"
    /\ solcount = 0
    /\ verified = FALSE
    /\ timeslot = 0

\* main of patch.c after patch() has returned 0: write_execution_time_xml, then
\* write_patch_xml of the frames after the fixed ones, then return 0
WritePatchXmlDocument ==
    /\ pc = "write_execution_time_xml"
    /\ written' = written \cup
          {[name |-> "execution_time", frames |-> << >>],
           [name |-> "patch",
            frames |-> [i \in 1..(Len(traffic) - num_frames_fixed) |->
                           write_patched_frame_xml(
                               [h \in 1..Len(traffic[num_frames_fixed + i].min) |->
                                   offsets[<<num_frames_fixed + i, 0, h - 1>>]],
                               traffic[num_frames_fixed + i].time)]]}
    /\ pc' = "exit"
    /\ exit_code' = 0
    /\ UNCHANGED << traffic, healing_prot, switch_min_time, algorithm, frames_it,
                    offsets, shp_offsets, model, solver, incumbent, frames_scheduled,
                    it, ret, no_incumbent, hyperperiod, num_frames_fixed, sorted_trans,
                    failed, solcount, verified, timeslot >>

\* a reader of fixed traffic given the frames of the document as FixedTraffic
RereadFixedTraffic(reader) ==
    /\ \E doc \in {d \in written : d.name = "patch"} :
          /\ traffic' = [i \in 1..Len(doc.frames) |-> read_fixed_frame(doc.frames[i])]
          /\ num_frames_fixed' = Len(doc.frames)
          /\ offsets' = [k \in PatchKeys(traffic') |-> traffic'[k[1]].trans[k[3] + 1]]
    /\ pc' = reader
    /\ sorted_trans' = << >>
    /\ frames_scheduled' = 0
    /\ written' = {}
    /\ exit_code' = "none"
    /\ UNCHANGED << healing_prot, switch_min_time, algorithm, frames_it, shp_offsets,
                    model, solver, incumbent, it, ret, no_incumbent, hyperperiod, failed,
                    solcount, verified, timeslot >>

ReadPatchFixedTraffixXml ==
    /\ pc = "exit"
    /\ RereadFixedTraffic("read_patch_fixed_traffix_xml")

ReadOptimizeFixedTraffixXml ==
    /\ pc = "exit"
    /\ RereadFixedTraffic("read_optimize_fixed_traffix_xml")

RereadNext ==
    \/ WritePatchXmlDocument
    \/ ReadPatchFixedTraffixXml
    \/ ReadOptimizeFixedTraffixXml

SpecReread == RereadInit /\ [][RereadNext]_vars

----------------------------------------------------------------------------
(* optimize.c: read_optimize_xml; optimize; write_optimize_xml;               *)
(* write_execution_time_xml.  The frames are those of a patch: one offset, on *)
(* the patched link (link 0 here), the fixed frames first.                     *)

OptimizeProtocols == {Inactive, [period |-> 3, time |-> 1], [period |-> 6, time |-> 2]}
OptimizeMins == {0, 2}

\* read_optimize_fixed_traffix_xml sets the transmission times of a fixed frame
\* only: min_offset and max_offset hold what malloc left in init_offset_patch
OptimizeFixedInputs ==
    {<< >>} \cup
    {<< [FixedFrame(<<t>>, d) EXCEPT !.min = <<a>>, !.max = <<b>>] >> :
        t \in FixedTransmissions, d \in 1..MaxTime, a \in Indeterminate, b \in Indeterminate}

OptimizeFrameInputs(hp) ==
    {PatchFrame([i \in 1..n |-> a + ((i - 1) * (hp \div n))],
                [i \in 1..n |-> b + ((i - 1) * (hp \div n))], d) :
        <<n, a, b, d>> \in {q \in PatchInstances \X OptimizeMins \X PatchMaxs \X (1..MaxTime) :
                              q[2] <= q[3] /\ q[3] < hp \div q[1]}}

OptimizeTrafficInputs(hp) == UNION {[1..n -> OptimizeFrameInputs(hp)] : n \in FrameCounts}

OptimizeInputs ==
    UNION {{[hyperperiod |-> hp, protocol |-> prot, frames |-> fx \o nw] :
               prot \in OptimizeProtocols, fx \in OptimizeFixedInputs,
               nw \in OptimizeTrafficInputs(hp)} :
           hp \in PatchHyperperiods}

\* the instances of the one offset of a patch frame
OffsetInstances(fr) == 0..(Len(IF fr.fixed THEN fr.trans ELSE fr.min) - 1)

\* (int)(get_hyperperiod() / shp->period); 0 stands for the quotient of a division
\* by zero that does not trap
OptimizeProtocolInstances ==
    IF healing_prot.period = 0 THEN 0 ELSE hyperperiod \div healing_prot.period

add_fixed_traffic(frames, num, instances_protocol) ==
    [v \in {VarOff(k[1], 0, k[3]) : k \in {q \in PatchKeys(frames) : q[1] <= num}} \cup
           {VarSHP(0, i) : i \in 0..(instances_protocol - 1)} |->
        IF v[1] = "Off"
        THEN << offsets[<<v[2], 0, v[4]>>], offsets[<<v[2], 0, v[4]>>] >>
        ELSE << healing_prot.period * v[4], healing_prot.period * v[4] >>]

add_traffic_optimize(frames, num, accum_num) ==
    [v \in {VarOff(k[1], 0, k[3]) :
               k \in {q \in PatchKeys(frames) : q[1] \in Batch(num, accum_num)}} |->
        << frames[v[2]].min[v[4] + 1], frames[v[2]].max[v[4] + 1] >>]

\* max_distance of create_intermission_variables_optimize
MaxDistance(fr) ==
    LET distances == {fr.max[i] - fr.min[i] : i \in 1..Len(fr.min)}
    IN  CHOOSE d \in distances : \A e \in distances : e <= d

\* the FrameDis variable of every frame of the batch with its two constraints per
\* instance, and the LinkDis variable of the iteration
create_intermission_variables_optimize(frames, num, accum_num, iter) ==
    [vars |-> [v \in {VarFrameDis(f) : f \in Batch(num, accum_num)} \cup
                     {VarLinkDis(iter, 0)} |->
                  IF v[1] = "FrameDis" THEN << 0, MaxDistance(frames[v[2]]) >>
                  ELSE << 0, hyperperiod >>],
     cons |-> UNION {UNION {
                  { Con("RangeMin", VarOff(f, 0, inst), NoVar, VarFrameDis(f),
                        frames[f].min[inst + 1], 0),
                    Con("RangeMax", VarOff(f, 0, inst), NoVar, VarFrameDis(f),
                        frames[f].max[inst + 1], 0) } :
                  inst \in OffsetInstances(frames[f])} :
                  f \in Batch(num, accum_num)}]

\* the test of avoid_collision_optimize on the ranges of two instances
ShareRange(min1, max1, min2, max2) ==
    (min1 <= min2 /\ min2 < max1) \/ (min2 <= min1 /\ min1 < max2)

avoid_collision_optimize(frames, num, accum_num, iter, instances_protocol) ==
    UNION {
        UNION {
            {Con("Avoid", VarOff(f, 0, q[1]), VarOff(pre, 0, q[2]), VarLinkDis(iter, 0),
                 frames[f].time, frames[pre].time) :
                q \in {r \in OffsetInstances(frames[f]) \X OffsetInstances(frames[pre]) :
                          ShareRange(frames[f].min[r[1] + 1], frames[f].max[r[1] + 1],
                                     frames[pre].min[r[2] + 1], frames[pre].max[r[2] + 1])}} :
            pre \in 1..(f - 1)}
        \cup
        {Con("Avoid", VarOff(f, 0, q[1]), VarSHP(0, q[2]), VarLinkDis(iter, 0),
             frames[f].time, healing_prot.time) :
            q \in {r \in OffsetInstances(frames[f]) \X (0..(instances_protocol - 1)) :
                      ShareRange(frames[f].min[r[1] + 1], frames[f].max[r[1] + 1],
                                 healing_prot.period * r[2],
                                 (healing_prot.period * r[2]) + healing_prot.time)}} :
        f \in Batch(num, accum_num)}

\* what an iteration of optimize adds to the model for a batch of frames
EmitOptimize(m, frames, num, accum_num, iter) ==
    LET inter == create_intermission_variables_optimize(frames, num, accum_num, iter)
    IN  [vars |-> m.vars @@ add_traffic_optimize(frames, num, accum_num) @@ inter.vars,
         cons |-> m.cons \cup inter.cons
                         \cup avoid_collision_optimize(frames, num, accum_num, iter,
                                                       OptimizeProtocolInstances)]

\* the "Fix" constraints of save_offsets on the one offset of the frames of a batch
save_offsets_fix_optimize(frames, num, accum_num, x) ==
    {Con("Fix", VarOff(k[1], 0, k[3]), NoVar, NoVar, x[VarOff(k[1], 0, k[3])], 0) :
        k \in {q \in PatchKeys(frames) : q[1] \in Batch(num, accum_num)}}

OptimizeInit ==
    /\ pc = "read_optimize_xml"
    /\ traffic = << >>
    /\ healing_prot = Inactive
    /\ switch_min_time = 0
    /\ algorithm = "one_shot"
    /\ frames_it = 1
    /\ offsets = << >>
    /\ shp_offsets = << >>
    /\ model = EmptyModel
    /\ solver = "none"
    /\ incumbent = << >>
    /\ frames_scheduled = 0
    /\ it = 1
    /\ ret = "none"
    /\ no_incumbent = FALSE
    /\ written = {}
    /\ hyperperiod = 0
    /\ num_frames_fixed = 0
    /\ sorted_trans = << >>
    /\ failed = {}
    /\ exit_code = "none"
    /\ solcount = 0
    /\ verified = FALSE
    /\ timeslot = 0

\* the cells of the fixed frames hold their TransmissionTime; the cells of the
\* frames to allocate are not read before save_offsets writes them (-1: not written)
ReadOptimizeXml ==
    /\ pc = "read_optimize_xml"
    /\ \E doc \in OptimizeInputs :
          /\ traffic' = doc.frames
          /\ healing_prot' = doc.protocol
          /\ hyperperiod' = doc.hyperperiod
          /\ num_frames_fixed' = get_num_fixed_frames(doc.frames)
          /\ offsets' = [k \in PatchKeys(doc.frames) |->
                            IF doc.frames[k[1]].fixed THEN doc.frames[k[1]].trans[k[3] + 1]
                            ELSE -1]
    /\ pc' = "optimize"
    /\ UNCHANGED << switch_min_time, algorithm, frames_it, shp_offsets, model, solver,
                    incumbent, frames_scheduled, it, ret, no_incumbent, written,
                    sorted_trans, failed, exit_code, solcount, verified, timeslot >>

\* optimize up to its loop: init_solver and add_fixed_traffic, whose
\* hyperperiod / shp->period with period = 0 is a division by zero: the process is
\* killed, or the quotient is 0
AddFixedTraffic ==
    /\ pc = "optimize"
    /\ solver' = "open"
    /\ \/ /\ healing_prot.period = 0
          /\ pc' = "killed"
          /\ UNCHANGED << model, frames_scheduled, it >>
       \/ /\ model' = [vars |-> add_fixed_traffic(traffic, num_frames_fixed,
                                                  OptimizeProtocolInstances),
                       cons |-> {}]
          /\ frames_scheduled' = num_frames_fixed
          /\ it' = 1
          /\ pc' = "optimize_loop"
    /\ UNCHANGED << traffic, healing_prot, switch_min_time, algorithm, frames_it,
                    offsets, shp_offsets, incumbent, ret, no_incumbent, written,
                    hyperperiod, num_frames_fixed, sorted_trans, failed, exit_code,
                    solcount, verified, timeslot >>

\* one iteration of the while loop up to GRBoptimize; avoid_collision_optimize
\* divides by shp->period again
OptimizeIteration ==
    /\ pc = "optimize_loop"
    /\ frames_scheduled < Len(traffic)
    /\ frames_it' = IF frames_scheduled + frames_it > Len(traffic)
                    THEN Len(traffic) - frames_scheduled ELSE frames_it
    /\ \/ /\ healing_prot.period = 0
          /\ pc' = "killed"
          /\ UNCHANGED << model, incumbent, solcount, no_incumbent >>
       \/ /\ model' = EmitOptimize(model, traffic, frames_it', frames_scheduled, it)
          /\ Optimize(model')
          /\ pc' = "optimize_solved"
    /\ UNCHANGED << traffic, healing_prot, switch_min_time, algorithm, offsets,
                    shp_offsets, solver, frames_scheduled, it, ret, written,
                    hyperperiod, num_frames_fixed, sorted_trans, failed, exit_code,
                    verified, timeslot >>

\* the rest of the iteration: no schedule found and the return of optimize, or
\* save_offsets and the next batch
OptimizeSave ==
    /\ pc = "optimize_solved"
    /\ IF solcount = 0
       THEN /\ ret' = -1
            /\ pc' = "write_execution_time_xml"
            /\ UNCHANGED << offsets, model, it, frames_scheduled >>
       ELSE /\ offsets' = save_offsets_cells(traffic, frames_it, frames_scheduled, incumbent)
            /\ model' = [model EXCEPT !.cons =
                            @ \cup save_offsets_fix_optimize(traffic, frames_it,
                                                             frames_scheduled, incumbent)]
            /\ it' = it + 1
            /\ frames_scheduled' = frames_scheduled + frames_it
            /\ pc' = "optimize_loop"
            /\ UNCHANGED ret
    /\ UNCHANGED << traffic, healing_prot, switch_min_time, algorithm, frames_it,
                    shp_offsets, solver, incumbent, no_incumbent, written, hyperperiod,
                    num_frames_fixed, sorted_trans, failed, exit_code, solcount,
                    verified, timeslot >>

\* after the loop: close_solver and return 0
OptimizeFinish ==
    /\ pc = "optimize_loop"
    /\ frames_scheduled >= Len(traffic)
    /\ solver' = "closed"
    /\ ret' = 0
    /\ pc' = "write_optimize_xml"
    /\ UNCHANGED << traffic, healing_prot, switch_min_time, algorithm, frames_it,
                    offsets, shp_offsets, model, incumbent, frames_scheduled, it,
                    no_incumbent, written, hyperperiod, num_frames_fixed, sorted_trans,
                    failed, exit_code, solcount, verified, timeslot >>

WriteOptimizeXml ==
    /\ pc = "write_optimize_xml"
    /\ written' = written \cup {"optimize"}
    /\ pc' = "write_execution_time_xml"
    /\ UNCHANGED << traffic, healing_prot, switch_min_time, algorithm, frames_it,
                    offsets, shp_offsets, model, solver, incumbent, frames_scheduled,
                    it, ret, no_incumbent, hyperperiod, num_frames_fixed, sorted_trans,
                    failed, exit_code, solcount, verified, timeslot >>

\* the write_execution_time_xml and return 0 of either branch of main
WriteExecutionTimeXmlOptimize ==
    /\ pc = "write_execution_time_xml"
    /\ written' = written \cup {"execution_time"}
    /\ pc' = "exit"
    /\ exit_code' = 0
    /\ UNCHANGED << traffic, healing_prot, switch_min_time, algorithm, frames_it,
                    offsets, shp_offsets, model, solver, incumbent, frames_scheduled,
                    it, ret, no_incumbent, hyperperiod, num_frames_fixed, sorted_trans,
                    failed, solcount, verified, timeslot >>

OptimizeNext ==
    \/ ReadOptimizeXml
    \/ AddFixedTraffic
    \/ OptimizeIteration
    \/ OptimizeSave
    \/ OptimizeFinish
    \/ WriteOptimizeXml
    \/ WriteExecutionTimeXmlOptimize

SpecOptimize == OptimizeInit /\ [][OptimizeNext]_vars

----------------------------------------------------------------------------
(* Properties of the scheduling session *)

\* the half-open intervals [a, a + da) and [b, b + db) share a timeslot
Overlap(a, da, b, db) == a < b + db /\ b < a + da

\* the offset cells save_offsets has filled with the value of an incumbent
Placed == {k \in DOMAIN offsets : offsets[k] # -1}

\* the reservation windows of the links: <<link, k>> for k in [0, hyperperiod / period)
Windows == ReservationKeys

\* C1: once offsets are read back from an incumbent, on every link the intervals
\* [v, v + dur) of the placed (frame, instance) offsets and the reservation windows
\* [k * period, k * period + duration) of an active SHP are pairwise disjoint.
C1_NonOverlap ==
    /\ \A k \in Placed : \A q \in Placed :
          (q # k /\ q[2] = k[2]) =>
              ~Overlap(offsets[k], traffic[k[1]].time, offsets[q], traffic[q[1]].time)
    /\ \A k \in Placed : \A w \in Windows :
          w[1] = k[2] =>
              ~Overlap(offsets[k], traffic[k[1]].time,
                       w[2] * healing_prot.period, healing_prot.time)
    /\ Placed # {} =>
          \A w \in Windows : \A x \in Windows :
              (w # x /\ w[1] = x[1]) =>
                  ~Overlap(w[2] * healing_prot.period, healing_prot.time,
                           x[2] * healing_prot.period, healing_prot.time)

\* two frames placed on one link, one of them with two instances, beside two
\* reservation windows, after incremental scheduling returned
C1_Witness ==
    /\ pc = "exit"
    /\ algorithm = "incremental"
    /\ healing_prot.period # 0
    /\ hyperperiod = 2 * healing_prot.period
    /\ \E k \in Placed : \E q \in Placed :
          k[1] # q[1] /\ k[2] = q[2] /\ k[3] = 1 /\ offsets[q] > offsets[k]

\* the model one_shot_scheduling gives the solver: every constraint of the instance
OneShotModel == EmitBatch(EmptyModel, traffic, Len(traffic), 0, 1, 0)

\* some offset assignment satisfies all the constraints of the constraint model
Schedulable == Incumbents(OneShotModel) # {}

\* C4: check_schedule returns -1 only for a real constraint violation: offsets read
\* back from incumbents, which satisfy every emitted constraint (bounds, path
\* dependency, end-to-end, contention-free against frames and SHP), are accepted.
C4_VerifierAcceptsIncumbents ==
    (pc \in {"write_schedule_xml", "exit"} /\ incumbent # << >>) => ret = 0

\* C5: for a schedulable instance, one_shot_scheduling and incremental_approach with
\* any K >= 1 return success with a schedule check_schedule accepts, provided
\* every solve of a feasible model left an incumbent.
C5_BothModesSucceed ==
    (pc = "exit" /\ ~no_incumbent /\ Schedulable) => ret = 0

\* C6: a single frame with end_to_end = 0, starting time 0 and deadline = period on
\* the two-link path <<0, 1>>, without SHP and with switch_min_time = 0, is given
\* by one-shot scheduling offsets a on link 0 and b on link 1 with 0 <= a,
\* b >= a + dur and b + dur <= deadline, and check_schedule accepts them.
C6_TwoLinkChain ==
    (/\ pc = "exit"
     /\ algorithm = "one_shot"
     /\ ~no_incumbent
     /\ healing_prot.period = 0
     /\ switch_min_time = 0
     /\ Len(traffic) = 1
     /\ traffic[1].end_to_end = 0
     /\ traffic[1].starting = 0
     /\ traffic[1].deadline = traffic[1].period
     /\ traffic[1].paths = << <<0, 1>> >>
     /\ 2 * traffic[1].time <= traffic[1].deadline)
        => /\ ret = 0
           /\ 0 <= offsets[<<1, 0, 0>>]
           /\ offsets[<<1, 1, 0>>] >= offsets[<<1, 0, 0>>] + traffic[1].time
           /\ offsets[<<1, 1, 0>>] + traffic[1].time <= traffic[1].deadline

\* C10: when schedule_network returns -1 (no incumbent, or check_schedule found a
\* violation), the entry point does not write the schedule document.
C10_NoScheduleOnFailure ==
    (pc = "exit" /\ ret = -1) => "schedule" \notin written

\* C11: once read_network_xml or prepare_network has returned -1 the session
\* aborts before any solve: schedule_network, whose first step is init_solver, is
\* not invoked afterwards.
C11_AbortBeforeSolve ==
    failed # {} => solver = "none"

\* C15: on every exit path of one_shot_scheduling and incremental_approach, the
\* returns after no incumbent and after a violation found by check_schedule
\* included, close_solver has released what init_solver acquired before the
\* function returns.
C15_SolverReleased ==
    pc \in {"write_schedule_xml", "exit"} => solver = "closed"

\* C18: in incremental mode, once an iteration has read back the offsets of its
\* batch no later iteration changes them: a cell is written once, from unset to
\* its final value, and every later solve keeps the pinned variable at that value.
C18_SetOnce ==
    /\ [][algorithm = "incremental" =>
            \A k \in DOMAIN offsets : offsets[k] # -1 => offsets'[k] = offsets[k]]_vars
    /\ []((algorithm = "incremental" /\ solcount = 1) =>
            \A k \in Placed : incumbent[VarOff(k[1], k[2], k[3])] = offsets[k])

\* two iterations of one frame each have read back their offsets
C18_Witness ==
    /\ pc = "exit"
    /\ algorithm = "incremental"
    /\ it = 3
    /\ Len(traffic) = 2
    /\ Placed = DOMAIN offsets

\* C19: every offset value v read back by one-shot or incremental scheduling for
\* frame F on link l at instance i satisfies
\* F.starting + i * F.period <= v <= F.deadline - dur(F, l) + i * F.period.
C19_OffsetWithinWindow ==
    \A k \in Placed :
        LET fr == traffic[k[1]]
        IN  /\ fr.starting + (k[3] * fr.period) <= offsets[k]
            /\ offsets[k] <= fr.deadline - fr.time + (k[3] * fr.period)

\* the second instance of a frame that starts after the beginning of its period
\* has been read back
C19_Witness ==
    /\ pc = "exit"
    /\ \E k \in Placed : k[3] = 1 /\ traffic[k[1]].starting = 1

C21_EndToEndBound ==
    \A f \in 1..Len(traffic) : \A j \in 1..Len(traffic[f].paths) :
        \A inst \in Instances(traffic[f]) :
            LET first == <<f, traffic[f].paths[j][1], inst>>
                last  == <<f, traffic[f].paths[j][Len(traffic[f].paths[j])], inst>>
            IN  (traffic[f].end_to_end > 0 /\ first \in Placed /\ last \in Placed) =>
                    offsets[last] - offsets[first]
                        <= traffic[f].end_to_end - traffic[f].time

\* a frame with a positive end-to-end bound has been read back on both links of
\* its path and the schedule returned
C21_Witness ==
    /\ pc = "exit"
    /\ ret = 0
    /\ \E f \in 1..Len(traffic) :
          /\ traffic[f].end_to_end > 0
          /\ traffic[f].paths = << <<0, 1>> >>
          /\ <<f, 0, 0>> \in Placed
          /\ <<f, 1, 0>> \in Placed
          /\ offsets[<<f, 1, 0>>] - offsets[<<f, 0, 0>>]
                = traffic[f].end_to_end - traffic[f].time

\* C27: for a frame with end_to_end = 0 the constraint model holds no end-to-end
\* inequality last - first <= end_to_end - dur(first), while the start and the
\* deadline slack constraints of that frame are still emitted.
C27_NoEndToEndWhenZero ==
    \A f \in 1..Len(traffic) :
        (traffic[f].end_to_end = 0 /\ VarFrameDis(f) \in DOMAIN model.vars) =>
            /\ ~\E c \in model.cons : c.k = "End1" /\ c.a[2] = f
            /\ \E c \in model.cons : c.k = "End2" /\ c.a[2] = f
            /\ \E c \in model.cons : c.k = "End3" /\ c.a[2] = f

\* C31: when GRBoptimize leaves no solution, the strategy returns -1 and writes
\* no offset of the batch it has not solved.  In one_shot_scheduling every
\* offset of the frames is still -1; in incremental_approach the offsets of the
\* frames of the failing batch and of the later frames are -1, and the offsets
\* of the frames scheduled before keep the values they had.  (With no frame
\* incremental_approach solves nothing.)
C31_FailureWritesNoOffset ==
    /\ [][(pc \in {"one_shot_solved", "incremental_solved"} /\ solcount = 0)
            => (ret' = -1 /\ offsets' = offsets /\ pc' = "write_schedule_xml")]_vars
    /\ []((pc = "one_shot_solved" /\ solcount = 0) => Placed = {})
    /\ []((pc = "incremental_solved" /\ solcount = 0)
            => \A k \in DOMAIN offsets : (k \in Placed) <=> (k[1] <= frames_scheduled))
    /\ []((pc \in {"write_schedule_xml", "exit"} /\ solcount = 0
                /\ (algorithm = "one_shot" \/ Len(traffic) > 0))
            => /\ ret = -1
               /\ (algorithm = "one_shot") => (Placed = {})
               /\ (algorithm = "incremental")
                     => (\A k \in DOMAIN offsets :
                           (k \in Placed) <=> (k[1] <= frames_scheduled)))

\* the second batch of an incremental schedule of two frames has no solution:
\* schedule_network has returned -1, the first frame has its offsets and the
\* second has none
C31_Witness ==
    /\ pc = "write_schedule_xml"
    /\ algorithm = "incremental"
    /\ solcount = 0
    /\ ret = -1
    /\ Len(traffic) = 2
    /\ frames_scheduled = 1
    /\ \E k \in Placed : k[1] = 1
    /\ \A k \in Placed : k[1] = 1

----------------------------------------------------------------------------
(* Properties of check_schedule *)

\* C2: check_schedule returns -1 whenever two different frames have offsets on the
\* same link whose half-open intervals [t, t + dur) intersect, for any pair of
\* instances of the two frames.
C2_FramesOverlapFlagged ==
    (/\ pc = "checked"
     /\ \E k \in DOMAIN offsets : \E q \in DOMAIN offsets :
           /\ k[1] # q[1]
           /\ k[2] = q[2]
           /\ Overlap(offsets[k], traffic[k[1]].time, offsets[q], traffic[q[1]].time))
        => ret = -1

\* C3: with SHP active, check_schedule returns -1 whenever the transmission
\* [t, t + dur) of a frame on a link intersects a reservation window
\* [k * period, k * period + duration) of that link, for every k in
\* [0, hyperperiod / period).
C3_ProtocolOverlapFlagged ==
    (/\ pc = "checked"
     /\ healing_prot.period # 0
     /\ \E k \in DOMAIN offsets : \E w \in Windows :
           /\ w[1] = k[2]
           /\ Overlap(offsets[k], traffic[k[1]].time,
                      w[2] * healing_prot.period, healing_prot.time))
        => ret = -1

\* some path and instance of frame i exceeds the end-to-end bound of the frame
EndToEndExceeded(i) ==
    \E j \in 1..Len(traffic[i].paths) : \E inst \in Instances(traffic[i]) :
        offsets[<<i, traffic[i].paths[j][Len(traffic[i].paths[j])], inst>>]
            - offsets[<<i, traffic[i].paths[j][1], inst>>]
                > traffic[i].end_to_end - traffic[i].time

\* C28: for every frame with end_to_end > 0, check_schedule reports an end-to-end
\* violation exactly when last - first > end_to_end - dur(first) for some path and
\* instance of that frame: such a frame makes check_schedule return -1, and the
\* test of check_schedule fires for no other frame.
C28_EndToEndFlagged ==
    pc = "checked" =>
        \A i \in 1..Len(traffic) :
            traffic[i].end_to_end > 0 =>
                /\ EndToEndExceeded(i) => ret = -1
                /\ (\E j \in 1..Len(traffic[i].paths) : \E inst \in Instances(traffic[i]) :
                        EndToEndViolated(traffic, offsets, i, j, inst))
                      => EndToEndExceeded(i)

----------------------------------------------------------------------------
(* Properties of the loop of incremental_approach *)

Ceil(n, k) == (n + k - 1) \div k
Min(a, b) == IF a < b THEN a ELSE b

\* the frames that have a cell read back from an incumbent
PlacedFrames == {k[1] : k \in Placed}

\* C29: for N frames and any K >= 1, when every solve returns an incumbent the
\* incremental loop performs exactly ceil(N / K) solves and then stops; the
\* batches are consecutive in traffic order with size min(K, remaining), and
\* every frame belongs to exactly one batch.  At the head of the loop the frames
\* scheduled so far are it - 1 full batches; the batch of an iteration has
\* min(K, remaining) frames and the one that reaches the last frame is solve
\* number ceil(N / K); reading a batch back places exactly its frames, which
\* follow the frames scheduled so far; the loop never goes past N.
C29_BatchesPartition ==
    /\ []((pc = "incremental_loop" /\ frames_it >= 1 /\ frames_scheduled < Len(traffic))
            => frames_scheduled = (it - 1) * frames_it)
    /\ [][(pc = "incremental_loop" /\ pc' = "incremental_solved" /\ frames_it >= 1) =>
            /\ frames_it' = Min(frames_it, Len(traffic) - frames_scheduled)
            /\ (frames_scheduled + frames_it >= Len(traffic))
                  => it = Ceil(Len(traffic), frames_it)]_vars
    /\ [][(pc = "incremental_solved" /\ pc' = "incremental_loop" /\ frames_it >= 1) =>
            /\ frames_scheduled' = frames_scheduled + frames_it
            /\ it' = it + 1
            /\ PlacedFrames = 1..frames_scheduled
            /\ PlacedFrames' \ PlacedFrames = Batch(frames_it, frames_scheduled)]_vars
    /\ []((pc = "incremental_loop" /\ frames_it >= 1) => frames_scheduled <= Len(traffic))
    /\ []((pc \in {"write_schedule_xml", "exit"} /\ frames_it >= 1 /\ solcount = 1)
            => (frames_scheduled = Len(traffic) /\ PlacedFrames = 1..Len(traffic)))

\* three frames scheduled two at a time: a batch of two, then the remaining one
C29_Witness ==
    /\ pc = "exit"
    /\ Len(traffic) = 3
    /\ frames_scheduled = 3
    /\ it = 3
    /\ frames_it = 1
    /\ PlacedFrames = {1, 2, 3}

\* C30: for every FramesIteration value read_schedule_parameters_xml accepts, 0 and
\* negative values included, the solve loop terminates: schedule_network returns
\* and main reaches its exit.
C30_LoopsTerminate == <>(pc = "exit")

----------------------------------------------------------------------------
(* Properties of contention_free on frames with any window *)

\* the timeslots of the window [starting, deadline) of an instance
WindowSlots(fr, inst) ==
    (fr.starting + inst * fr.period)..(fr.deadline + inst * fr.period - 1)

\* the values the solver may give a variable of the model
VarValuesOf(m, v) == (m.vars[v][1])..(m.vars[v][2])
VarValues(v) == VarValuesOf(model, v)

\* the pairs of instances contention_free has gone through: an instance of a
\* frame given to the solver and an instance of a frame before it, on a link
\* both frames use
ComparedPairs ==
    {q \in OffsetKeys(traffic) \X OffsetKeys(traffic) :
        /\ q[2][1] < q[1][1]
        /\ q[1][2] = q[2][2]
        /\ VarOff(q[1][1], q[1][2], q[1][3]) \in DOMAIN model.vars}

AvoidEmitted(k, pre) ==
    \E c \in model.cons :
        /\ c.k = "Avoid"
        /\ c.a = VarOff(k[1], k[2], k[3])
        /\ c.b = VarOff(pre[1], pre[2], pre[3])

\* C32: for two instances of two frames on one link, contention_free emits the
\* disjunction exactly when the windows [starting, deadline) + instance * period
\* of the two instances have a timeslot in common; a pair without disjunction
\* cannot overlap, whatever values within their bounds the two variables take.
C32_DisjunctionWhenWindowsMeet ==
    \A q \in ComparedPairs :
        LET k == q[1]
            pre == q[2]
        IN  /\ AvoidEmitted(k, pre)
                 <=> (WindowSlots(traffic[k[1]], k[3])
                         \cap WindowSlots(traffic[pre[1]], pre[3]) # {})
            /\ ~AvoidEmitted(k, pre)
                 => \A a \in VarValues(VarOff(k[1], k[2], k[3])) :
                       \A b \in VarValues(VarOff(pre[1], pre[2], pre[3])) :
                          ~Overlap(a, traffic[k[1]].time, b, traffic[pre[1]].time)

\* a frame of period 3 and a frame of period 6 with the window [3, 6): the
\* disjunction is emitted against instance 1 of the first frame and not against
\* its instance 0, and both frames have been placed
C32_Witness ==
    /\ pc = "exit"
    /\ Len(traffic) = 2
    /\ traffic[1].period = 3
    /\ traffic[2].starting = 3
    /\ AvoidEmitted(<<2, 0, 0>>, <<1, 0, 1>>)
    /\ ~AvoidEmitted(<<2, 0, 0>>, <<1, 0, 0>>)
    /\ Placed = DOMAIN offsets

\* a constraint without its distance variable: the gap of a path, the
\* end-to-end bound, the two orders of a pair on a link, a pinned offset; End_2
\* and End_3 are the bounds of the first and the last offset plus the distance
SlackFreeHolds(c, p) ==
    CASE c.k = "PathDep" -> p[c.b] - p[c.a] >= c.rhs
      [] c.k = "End1"    -> p[c.b] - p[c.a] <= c.rhs
      [] c.k = "Avoid"   -> p[c.b] - p[c.a] >= c.rhs \/ p[c.a] - p[c.b] >= c.rhs2
      [] c.k = "Fix"     -> p[c.a] = c.rhs
      [] OTHER           -> TRUE

\* the assignments of the offsets of todo, within their bounds, that extend one
\* of partials and satisfy the constraints without distances
RECURSIVE SlackFreeExtend(_, _, _)
SlackFreeExtend(m, todo, partials) ==
    IF todo = {} \/ partials = {} THEN partials
    ELSE LET v == CHOOSE x \in todo : TRUE
         IN  SlackFreeExtend(m, todo \ {v},
                {p @@ (v :> x) : p \in partials, x \in VarValuesOf(m, v)} \ 
                {q \in {p @@ (v :> x) : p \in partials, x \in VarValuesOf(m, v)} :
                    \E c \in m.cons : /\ v \in ConVars(c)
                                       /\ ConVars(c) \subseteq DOMAIN q
                                       /\ ~SlackFreeHolds(c, q)})

SlackFreeSchedules(m) == SlackFreeExtend(m, OffsetVars(m), {<< >>})

\* C39: the FrameDis and LinkDis variables remove no schedule: every assignment
\* of the offsets that is within the bounds of the variables and satisfies the
\* constraints without the distances (gap of the paths, end-to-end, one of the
\* two orders of every pair on a link, the pinned offsets) is a solution of the
\* model handed to the solver, so a model without solution has no such
\* assignment either.
C39_DistancesKeepSchedules ==
    [][(model' # model) =>
          /\ SlackFreeSchedules(model') \subseteq Incumbents(model')
          /\ (Incumbents(model') = {}) => (SlackFreeSchedules(model') = {})]_vars

\* the second batch of an incremental run has been solved: its model holds the
\* pinned offsets of the first frame, a pair on a link, and distances
C39_Witness ==
    /\ pc = "incremental_solved"
    /\ solcount = 1
    /\ frames_scheduled = 1
    /\ \E c \in model.cons : c.k = "Fix"
    /\ \E c \in model.cons : c.k = "Avoid"
    /\ \E c \in model.cons : c.k = "PathDep"
    /\ SlackFreeSchedules(model) # {}

----------------------------------------------------------------------------
(* Properties of the setters of Frame.c *)

\* C26: set_deadline called with a deadline larger than the period,
\* set_starting_time called with a starting time that is at least the deadline and
\* set_end_to_end called with a bound that is at least the deadline return -1
\* and leave the frame as it was; set_deadline called with 0 returns 0 and
\* stores the period as the deadline.
C26_SettersReject ==
    [][\A v \in SetterArguments :
          /\ (SetDeadlineTo(v) /\ v > traffic[1].period)
                => (ret' = -1 /\ traffic' = traffic)
          /\ (SetStartingTimeTo(v) /\ v >= traffic[1].deadline)
                => (ret' = -1 /\ traffic' = traffic)
          /\ (SetEndToEndTo(v) /\ v >= traffic[1].deadline)
                => (ret' = -1 /\ traffic' = traffic)
          /\ (SetDeadlineTo(v) /\ v = 0)
                => (ret' = 0 /\ traffic'[1].deadline = traffic[1].period)]_vars

\* a setter has returned -1 on a frame whose deadline a call of set_deadline
\* with 0 has set to the period: the frame keeps the starting time and the
\* end-to-end bound it had
C26_Witness ==
    /\ pc \in {"set_starting_time", "set_end_to_end"}
    /\ ret = -1
    /\ traffic[1].period = 6
    /\ traffic[1].deadline = 6
    /\ traffic[1].starting = 1
    /\ traffic[1].end_to_end = 2

----------------------------------------------------------------------------
(* Properties of read_traffic_xml and prepare_network *)

\* the places of offset_it that hold the offset of a link
IterationPlaces(fr, l) ==
    {k \in 1..Len(fr.offset_it) : fr.heap[fr.offset_it[k]].link_id = l}

IsLeastCommonMultiple(m, frames) ==
    /\ m >= 1
    /\ \A f \in 1..Len(frames) : m % frames[f].period = 0
    /\ \A d \in 2..m :
          (m % d = 0) => \E f \in 1..Len(frames) : (m \div d) % frames[f].period # 0

\* C23: once read_traffic_xml has read all the frames, the hyperperiod is the
\* least common multiple of their periods, and once init_offsets has run every
\* offset of a frame has hyperperiod / period instances, the division being exact.
C23_HyperperiodIsLcm ==
    /\ (pc \in {"prepare_network", "adjust_timeslot"})
          => IsLeastCommonMultiple(hyperperiod, traffic)
    /\ (pc = "adjust_timeslot")
          => \A f \in 1..Len(traffic) : \A o \in DOMAIN traffic[f].heap :
                /\ traffic[f].heap[o].num_instances * traffic[f].period = hyperperiod
                /\ traffic[f].heap[o].num_instances = hyperperiod \div traffic[f].period

\* C24: when prepare_network returns 0, the timeslot it has chosen times each
\* value it has stored gives the value in ns it has divided: for the
\* hyperperiod, for the period, the deadline, the starting time and the
\* end-to-end bound of every frame, for the transmission time of every offset,
\* and for the period and the time of the protocol.
C24_TimeslotDividesAll ==
    [][(pc = "prepare_network" /\ pc' = "prepared" /\ ret' = 0) =>
          /\ timeslot' * hyperperiod' = hyperperiod
          /\ timeslot' * healing_prot'.period = healing_prot.period
          /\ timeslot' * healing_prot'.time = healing_prot.time
          /\ \A f \in 1..Len(traffic) :
                /\ timeslot' * traffic'[f].period = traffic[f].period
                /\ timeslot' * traffic'[f].deadline = traffic[f].deadline
                /\ timeslot' * traffic'[f].starting = traffic[f].starting
                /\ timeslot' * traffic'[f].end_to_end = traffic[f].end_to_end
                /\ \A k \in 1..Len(traffic'[f].offset_it) :
                      LET offset == traffic'[f].heap[traffic'[f].offset_it[k]]
                      IN  timeslot' * offset.time = time_frame(traffic[f], offset.link_id)]_vars

IsGreatestCommonDivisor(g, S) ==
    IF S = {} THEN g = 0
    ELSE /\ g >= 1
         /\ \A n \in S : n % g = 0
         /\ \A n \in S : \A d \in (g + 1)..n : \E x \in S : x % d # 0

\* (size * 8 * 10^3) / speed in ns, at least 1 ns
RawDuration(fr, link_id) ==
    LET d == (fr.size * 8 * 1000) \div get_speed(link_id)
    IN  IF d < 1 THEN 1 ELSE d

ByteDuration(fr, link_id) ==
    LET d == (fr.size * 1000) \div get_speed(link_id)
    IN  IF d < 1 THEN 1 ELSE d

C37_SwitchTimeInTimeslots ==
    [][(pc = "prepare_network" /\ pc' = "prepared" /\ ret' = 0) =>
          /\ \A f \in 1..Len(traffic) : \A o \in DOMAIN traffic'[f].heap :
                traffic'[f].heap[o].time
                    = cdiv(time_frame(traffic[f], traffic'[f].heap[o].link_id), timeslot')
          /\ switch_min_time' = cdiv(switch_min_time, timeslot')]_vars

----------------------------------------------------------------------------
(* Properties of the documents of a patch read again *)

\* C38: a frame write_patch_xml has emitted with EndingTime = TransmissionTime
\* + duration - 1, read again as fixed traffic by read_patch_fixed_traffix_xml
\* or read_optimize_fixed_traffix_xml, is given the duration it had when it was
\* emitted.
C38_RereadKeepsDuration ==
    [][(pc = "exit" /\ pc' \in {"read_patch_fixed_traffix_xml",
                                "read_optimize_fixed_traffix_xml"})
          => \A f \in 1..Len(traffic') :
                /\ traffic'[f].trans[1] = offsets[<<f, 0, 0>>]
                /\ traffic'[f].time = traffic[f].time]_vars

----------------------------------------------------------------------------
(* Properties of the patch session *)

\* the timeslots of [a, a + d)
Slots(a, d) == a..(a + d - 1)

\* the instances allocate_patch_traffic has already passed to allocate_offset_patch
\* with success
AllocatedCells ==
    {k \in DOMAIN offsets :
        /\ ~traffic[k[1]].fixed
        /\ \/ k[1] <= num_frames_fixed + frames_scheduled
           \/ k[1] = num_frames_fixed + frames_scheduled + 1 /\ k[3] < it}

FixedCells == {k \in DOMAIN offsets : traffic[k[1]].fixed}

ProtocolInstances ==
    IF healing_prot.period = 0 THEN {} ELSE 0..((hyperperiod \div healing_prot.period) - 1)

\* the timeslots of the fixed frames [t, t + dur) and of the reservations
\* [k * period, k * period + duration)
PrePopulatedSlots ==
    UNION ({Slots(offsets[k], traffic[k[1]].time) : k \in FixedCells} \cup
           {Slots(k * healing_prot.period, healing_prot.time) : k \in ProtocolInstances})

PrePopulated == FixedCells # {} \/ ProtocolInstances # {}

PrePopulatedDisjoint ==
    /\ \A k \in FixedCells : \A q \in FixedCells \ {k} :
          ~Overlap(offsets[k], traffic[k[1]].time, offsets[q], traffic[q[1]].time)
    /\ \A k \in FixedCells : \A w \in ProtocolInstances :
          ~Overlap(offsets[k], traffic[k[1]].time,
                   w * healing_prot.period, healing_prot.time)
    /\ \A w \in ProtocolInstances : \A x \in ProtocolInstances \ {w} :
          ~Overlap(w * healing_prot.period, healing_prot.time,
                   x * healing_prot.period, healing_prot.time)

OccupiedSlots ==
    PrePopulatedSlots \cup
    UNION {Slots(offsets[k], traffic[k[1]].time) : k \in AllocatedCells}

Free(s, d) == Slots(s, d) \cap OccupiedSlots = {}

\* C7: an allocation on a pre-populated list records the earliest start s >= min
\* such that [s, s + dur) meets no occupied interval (fixed frames [t, t + dur),
\* reservations [k * period, k * period + duration), earlier allocations); and the
\* patch of the scenario (SHP at 0 for 20, fixed frame at 100 for 50, new frame
\* with min = 0, max = 200, dur = 30) ends with the new frame at t = 20.
C7_EarliestStart ==
    /\ [][(pc = "allocate_patch_traffic" /\ PrePopulated /\ sorted_trans' # << >>) =>
            LET fr_it == num_frames_fixed + frames_scheduled + 1
                s == offsets'[<<fr_it, 0, it>>]
            IN  /\ Free(s, traffic[fr_it].time)
                /\ \A e \in (traffic[fr_it].min[it + 1])..(s - 1) :
                      ~Free(e, traffic[fr_it].time)]_vars
    /\ []((pc = "exit" /\ traffic = ScenarioPatch.frames
                       /\ healing_prot = ScenarioPatch.protocol)
            => offsets[<<2, 0, 0>>] = 20)

\* C8: when the fixed frames and the reservations are pairwise disjoint, after
\* every successful allocation on the pre-populated list no allocated transmission
\* shares a timeslot with a fixed frame, a reservation or another allocated
\* transmission.
C8_AllocationsDisjoint ==
    (pc # "read_patch_xml" /\ PrePopulated /\ PrePopulatedDisjoint) =>
        \A k \in AllocatedCells :
            /\ Slots(offsets[k], traffic[k[1]].time) \cap PrePopulatedSlots = {}
            /\ \A q \in AllocatedCells \ {k} :
                  ~Overlap(offsets[k], traffic[k[1]].time, offsets[q], traffic[q[1]].time)

\* C9: every instance the allocator accepted has a recorded start s with
\* min <= s <= max (the other outcome is the failure of patch); no recorded
\* start exceeds max.
C9_StartWithinRange ==
    pc # "read_patch_xml" =>
        \A k \in AllocatedCells :
            /\ traffic[k[1]].min[k[3] + 1] <= offsets[k]
            /\ offsets[k] <= traffic[k[1]].max[k[3] + 1]

\* the cell allocate_patch_traffic passes to allocate_offset_patch next
NextCell == <<num_frames_fixed + frames_scheduled + 1, 0, it>>

\* the list after the step is the list before it with one block more
OneBlockAdded(pos) ==
    /\ Len(sorted_trans') = Len(sorted_trans) + 1
    /\ \A i \in 1..Len(sorted_trans) :
          sorted_trans'[IF i < pos THEN i ELSE i + 1] = sorted_trans[i]

\* C33: after every insertion into the list of occupied intervals, by
\* insert_fixed_trans in prepare_fixed_traffic and by allocate_offset_patch in
\* allocate_patch_traffic, the starts of the list do not decrease.
C33_ListSortedByStart ==
    \A i \in 1..(Len(sorted_trans) - 1) : sorted_trans[i][1] <= sorted_trans[i + 1][1]

\* fixed frames and reservations have been inserted, and an allocation has been
\* inserted before a block that was already there
C33_Witness ==
    /\ pc = "exit"
    /\ ret = 0
    /\ FixedCells # {}
    /\ ProtocolInstances # {}
    /\ \E k \in AllocatedCells : \E i \in 1..(Len(sorted_trans) - 1) :
          /\ sorted_trans[i] = <<offsets[k], offsets[k] + traffic[k[1]].time - 1>>
          /\ sorted_trans[i + 1][1] > offsets[k]
          /\ sorted_trans[i + 1][2] = sorted_trans[i + 1][1] + 1

\* C34: whenever allocate_offset_patch succeeds for an instance, also on an
\* empty list, the offset of the instance is the start of the block the call
\* has added to the list.
C34_PlacementRecorded ==
    [][(pc = "allocate_patch_traffic" /\ sorted_trans' # << >>)
          => \E pos \in 1..Len(sorted_trans') :
                /\ OneBlockAdded(pos)
                /\ offsets'[NextCell] = sorted_trans'[pos][1]]_vars

\* C35: allocate_patch_traffic takes the frames in the order of the input and
\* the instances in their order; a successful allocation adds one block to the
\* list and changes no other block and no offset but the one of its instance;
\* after the first instance that cannot be placed nothing more is allocated.
C35_NoBacktracking ==
    /\ [][(pc = "allocate_patch_traffic" /\ sorted_trans' # << >>)
             => /\ \E pos \in 1..Len(sorted_trans') : OneBlockAdded(pos)
                /\ \A k \in DOMAIN offsets \ {NextCell} : offsets'[k] = offsets[k]
                /\ NextCell \notin AllocatedCells
                /\ AllocatedCells' = AllocatedCells \cup {NextCell}
                /\ \A k \in DOMAIN offsets :
                      (~traffic[k[1]].fixed /\ k \notin AllocatedCells)
                         => \/ NextCell[1] < k[1]
                            \/ NextCell[1] = k[1] /\ NextCell[3] <= k[3]]_vars
    /\ [][(pc = "allocate_patch_traffic" /\ sorted_trans' = << >>)
             => /\ pc' = "write_execution_time_xml"
                /\ ret' = -1
                /\ offsets' = offsets
                /\ AllocatedCells' = AllocatedCells]_vars
    /\ [][(pc \in {"write_execution_time_xml", "write_patch_xml"})
             => UNCHANGED << offsets, sorted_trans, frames_scheduled, it >>]_vars

\* the second instance of the second frame could not be placed after three
\* allocations
C35_Witness ==
    /\ pc = "exit"
    /\ ret = -1
    /\ frames_scheduled = 1
    /\ it = 1
    /\ Cardinality(AllocatedCells) = Len(traffic[num_frames_fixed + 1].min) + 1
    /\ PrePopulated

\* C16: when patch() reports infeasibility the entry point writes the timing
\* document only, never the patched schedule, and exits with code 0; when patch()
\* succeeds both the timing document and the patched schedule are written.
C16_PatchDocuments ==
    pc = "exit" =>
        /\ exit_code = 0
        /\ written = IF ret = -1 THEN {"execution_time"} ELSE {"execution_time", "patch"}

\* the entry point has returned after an allocation failed on a pre-populated list
C16_Witness ==
    /\ pc = "exit"
    /\ ret = -1
    /\ PrePopulated
    /\ "execution_time" \in written

\* C17: with SHP inactive (period = 0) the patch engine adds no SHP interval and
\* otherwise proceeds normally: pre-population completes without error or
\* undefined arithmetic.
C17_InactiveProceeds ==
    healing_prot.period = 0 => pc # "killed"

----------------------------------------------------------------------------
(* Properties of the optimize session *)

\* the cells of the frames to allocate that save_offsets has written
NewCells == {k \in DOMAIN offsets : ~traffic[k[1]].fixed /\ offsets[k] # -1}

\* optimize has returned 0
OptimizeSucceeded ==
    pc \in {"write_optimize_xml", "write_execution_time_xml", "exit"} /\ ret = 0

\* C12: every scheduling strategy runs the verifier on its final offsets before
\* reporting success: the optimize session, like one_shot_scheduling and
\* incremental_approach, returns success only after check_schedule has passed on
\* the offsets it produced.
C12_VerifiedBeforeSuccess ==
    OptimizeSucceeded => verified

\* C13: after optimize() succeeds, no transmission [v, v + dur) of a new frame
\* overlaps the transmission of a fixed frame on the patched link.
C13_NewFramesAvoidFixed ==
    OptimizeSucceeded =>
        \A k \in NewCells : \A q \in FixedCells :
            ~Overlap(offsets[k], traffic[k[1]].time, offsets[q], traffic[q[1]].time)

\* C14: after optimize() succeeds, the transmissions [v, v + dur) of all the new
\* frame instances are pairwise disjoint and disjoint from every reservation
\* window [k * period, k * period + duration), for all the start ranges
\* [min_i, max_i] of the input.
C14_NewFramesDisjoint ==
    OptimizeSucceeded =>
        /\ \A k \in NewCells : \A q \in NewCells \ {k} :
              ~Overlap(offsets[k], traffic[k[1]].time, offsets[q], traffic[q[1]].time)
        /\ \A k \in NewCells : \A w \in ProtocolInstances :
              ~Overlap(offsets[k], traffic[k[1]].time,
                       w * healing_prot.period, healing_prot.time)

====
